---- MODULE Spec2Model ----
(***************************************************************************)
(* Model of the OSM-to-GeoJSON geometry pipeline of osm-extractor          *)
(* (src/geometryProcessor.js) and of the export entry point that consumes  *)
(* it (src/exportService.js).                                              *)
(*                                                                         *)
(* The only state that outlives a call is GeometryProcessor.clipBoundary.  *)
(* Every other variable records the last call made on the module: `call`   *)
(* is the operation and its arguments, `ret` is what the operation         *)
(* returned.  Each action is one whole call.                               *)
(*                                                                         *)
(* Representation of JavaScript values:                                    *)
(*   - a tag mapping (tags, properties) is [defined, entries]: defined is  *)
(*     FALSE for an absent (undefined) mapping, entries is the set of      *)
(*     <<key, value>> pairs, one per key;                                  *)
(*   - a tag value is a string; NullValue stands for null/undefined;       *)
(*   - a position is <<lon, lat>>; NullVertex stands for a null entry in   *)
(*     a coordinate array (destructuring it throws a TypeError);           *)
(*   - a geometry is [type, hasCoordinates, coordinates]; hasCoordinates   *)
(*     is FALSE when the coordinates property is missing;                  *)
(*   - a feature carries, besides geometry and properties, the field src:  *)
(*     the 1-based index in osmData.elements of the element it was built   *)
(*     from (0 for a feature that was not built by osmToGeoJSON).  The     *)
(*     code has no such field; it is provenance kept for the properties.   *)
(***************************************************************************)
EXTENDS Integers, Sequences, FiniteSets

VARIABLES
    clipBoundary,   \* GeometryProcessor.clipBoundary
    input,          \* the data the caller holds during the run
    call,           \* the last call: its name and scalar arguments
    ret,            \* what the last call returned or threw
    lastSet         \* the argument of the last setClipBoundary call

VARIABLES
    cachedData,             \* OSMService.cachedData
    cachedQuery,            \* OSMService.cachedQuery
    currentEndpointIndex,   \* OSMService.currentEndpointIndex
    fetch                   \* the fetchOverpassData call in flight: its query and attempt

VARIABLES
    rectangle,              \* MapController.rectangle: the bounds of the drawn rectangle
    drawHistory,            \* MapController.drawHistory
    currentHistoryIndex     \* MapController.currentHistoryIndex

\* the state of OSMService
service == <<cachedData, cachedQuery, currentEndpointIndex, fetch>>

\* the state of MapController
mapController == <<rectangle, drawHistory, currentHistoryIndex>>

vars == <<clipBoundary, input, call, ret, lastSet, service, mapController>>


(***************************************************************************)
(* Bounds of the explored inputs                                           *)
(***************************************************************************)
\* largest lon/lat value of an input position (0 is the falsy coordinate)
MaxCoord == 2
\* longest node-reference list of a way in the way family of inputs
MaxRefs == 6
\* longest element list in the mixed family of inputs
MaxElems == 3
\* longest LineString handed to clipFeatureToBoundary
MaxLine == 3
\* longest ring of a Polygon handed to clipFeatureToBoundary
MaxRing == 4

Coords == 0..MaxCoord

(***************************************************************************)
(* Generic helpers                                                         *)
(***************************************************************************)
\* all sequences over S of length at most n
SeqsUpTo(S, n) == UNION {[1..k -> S] : k \in 0..n}

RECURSIVE Flatten(_)
\* concatenation of a sequence of sequences
Flatten(ss) ==
    IF Len(ss) = 0 THEN <<>>
    ELSE IF Len(ss) = 1 THEN ss[1]
    ELSE LET half == Len(ss) \div 2
         IN  Flatten(SubSeq(ss, 1, half)) \o Flatten(SubSeq(ss, half + 1, Len(ss)))

\* Array.prototype.map
Map(s, F(_)) == [i \in 1..Len(s) |-> F(s[i])]

\* the indices 1..Len(s) as a sequence
Indices(s) == [i \in 1..Len(s) |-> i]

(***************************************************************************)
(* Tag mappings                                                            *)
(***************************************************************************)
NullValue == "<null>"

\* JavaScript truthiness of a tag value
Truthy(v) == v # "" /\ v # NullValue

NoTags == [defined |-> FALSE, entries |-> {}]

Tags(entries) == [defined |-> TRUE, entries |-> entries]

\* Object.keys(tags)
Keys(tags) == {e[1] : e \in tags.entries}

HasKey(tags, k) == k \in Keys(tags)

\* tags[k]; NullValue (undefined) when the key is absent
Get(tags, k) ==
    IF HasKey(tags, k) THEN (CHOOSE e \in tags.entries : e[1] = k)[2]
    ELSE NullValue

skipFields == {"created_by", "source", "source:ref", "attribution"}

\* mutant: the metadata keys are not skipped
cleanProperties_KeepsMetadata(tags) ==
    IF ~tags.defined THEN Tags({})
    ELSE Tags({e \in tags.entries : e[2] # NullValue /\ e[2] # ""})

cleanProperties(tags) ==
    IF ~tags.defined THEN Tags({})
    ELSE Tags({e \in tags.entries :
                  /\ ~(e[2] = NullValue \/ e[2] = "")
                  /\ e[1] \notin skipFields})

polygonTags == {"building", "landuse", "amenity", "leisure", "tourism",
                "aeroway", "natural", "place", "shop", "office",
                "craft", "military", "public_transport"}

\* mutant: every closed way of four nodes or more is an area, whatever its tags
isAreaFeature_IgnoresTags(tags, isClosed, nodeCount) ==
    isClosed /\ nodeCount >= 4

\* mutant: area=no does not override the polygon tags
isAreaFeature_AreaNoIgnored(tags, isClosed, nodeCount) ==
    IF ~isClosed \/ nodeCount < 4 THEN FALSE
    ELSE IF ~tags.defined THEN FALSE
    ELSE IF Get(tags, "area") = "yes" THEN TRUE
    ELSE IF \E tag \in polygonTags : Truthy(Get(tags, tag)) THEN TRUE
    ELSE IF Get(tags, "natural") \in {"water", "wood", "scrub", "wetland"} THEN TRUE
    ELSE IF Get(tags, "waterway") \in {"riverbank", "dock"} THEN TRUE
    ELSE FALSE

\* mutant: the waterway values riverbank and dock are not looked at
isAreaFeature_NoWaterway(tags, isClosed, nodeCount) ==
    IF ~isClosed \/ nodeCount < 4 THEN FALSE
    ELSE IF ~tags.defined THEN FALSE
    ELSE IF Get(tags, "area") = "yes" THEN TRUE
    ELSE IF Get(tags, "area") = "no" THEN FALSE
    ELSE IF \E tag \in polygonTags : Truthy(Get(tags, tag)) THEN TRUE
    ELSE IF Get(tags, "natural") \in {"water", "wood", "scrub", "wetland"} THEN TRUE
    ELSE FALSE

isAreaFeature(tags, isClosed, nodeCount) ==
    IF ~isClosed \/ nodeCount < 4 THEN FALSE
    ELSE IF ~tags.defined THEN FALSE
    ELSE IF Get(tags, "area") = "yes" THEN TRUE
    ELSE IF Get(tags, "area") = "no" THEN FALSE
    ELSE IF \E tag \in polygonTags : Truthy(Get(tags, tag)) THEN TRUE
    ELSE IF Get(tags, "natural") \in {"water", "wood", "scrub", "wetland"} THEN TRUE
    ELSE IF Get(tags, "waterway") \in {"riverbank", "dock"} THEN TRUE
    ELSE FALSE

(***************************************************************************)
(* Features and geometries                                                 *)
(***************************************************************************)
NullVertex == <<>>

Geometry(type, coordinates) ==
    [type |-> type, hasCoordinates |-> TRUE, coordinates |-> coordinates]

\* a geometry whose coordinates property is missing
GeometryNoCoords(type) ==
    [type |-> type, hasCoordinates |-> FALSE, coordinates |-> <<>>]

\* the value of a missing geometry property
NoGeometry == GeometryNoCoords("<none>")

Feature(geometry, properties, src) ==
    [geometry |-> geometry, properties |-> properties, src |-> src]

\* feature.geometry is set
HasGeometry(feature) == feature.geometry.type # "<none>"

SetCoordinates(feature, coordinates) ==
    [feature EXCEPT !.geometry.coordinates = coordinates]

(***************************************************************************)
(* Clip boundary                                                           *)
(***************************************************************************)
\* the value null of clipBoundary
NoBoundary == <<>>

\* a Leaflet LatLngBounds, by its four getters
LatLngBounds(west, east, south, north) ==
    [west |-> west, east |-> east, south |-> south, north |-> north]

\* the ring setClipBoundary stores in clipBoundary.coordinates[0]
BoundaryRing(bounds) ==
    << <<bounds.west, bounds.north>>,
       <<bounds.east, bounds.north>>,
       <<bounds.east, bounds.south>>,
       <<bounds.west, bounds.south>>,
       <<bounds.west, bounds.north>> >>

\* bounds[3][0], bounds[1][0], bounds[2][1], bounds[0][1] (0-based in the code)
MinLon(boundary) == boundary[4][1]
MaxLon(boundary) == boundary[2][1]
MinLat(boundary) == boundary[3][2]
MaxLat(boundary) == boundary[1][2]

\* the test lon >= minLon && lon <= maxLon && lat >= minLat && lat <= maxLat
InsideBox(boundary, lon, lat) ==
    /\ lon >= MinLon(boundary) /\ lon <= MaxLon(boundary)
    /\ lat >= MinLat(boundary) /\ lat <= MaxLat(boundary)

\* mutant: the bounds are exclusive
isPointInBoundary_Exclusive(boundary, lon, lat) ==
    IF boundary = NoBoundary THEN TRUE
    ELSE /\ lon > MinLon(boundary) /\ lon < MaxLon(boundary)
         /\ lat > MinLat(boundary) /\ lat < MaxLat(boundary)

isPointInBoundary(boundary, lon, lat) ==
    IF boundary = NoBoundary THEN TRUE
    ELSE InsideBox(boundary, lon, lat)

Max(a, b) == IF a >= b THEN a ELSE b
Min(a, b) == IF a <= b THEN a ELSE b

\* mutant: the point is pushed as it is
clipPointToBoundary_NoClamp(lon, lat, minLon, maxLon, minLat, maxLat) == <<lon, lat>>

clipPointToBoundary(lon, lat, minLon, maxLon, minLat, maxLat) ==
    << Max(minLon, Min(maxLon, lon)), Max(minLat, Min(maxLat, lat)) >>

RECURSIVE ClipLineLoop(_, _, _, _)
\* the for loop of clipLineString from index i on, clipped being the output so far
ClipLineLoop(boundary, coords, i, clipped) ==
    IF i > Len(coords) THEN clipped
    ELSE LET lon == coords[i][1]
             lat == coords[i][2]
             next == coords[i + 1]
         IN  IF InsideBox(boundary, lon, lat)
             THEN ClipLineLoop(boundary, coords, i + 1, Append(clipped, <<lon, lat>>))
             ELSE IF /\ Len(clipped) > 0
                     /\ i < Len(coords)
                     /\ next # NullVertex
                     /\ InsideBox(boundary, next[1], next[2])
             THEN ClipLineLoop(boundary, coords, i + 1,
                      Append(clipped,
                             clipPointToBoundary(lon, lat, MinLon(boundary), MaxLon(boundary),
                                                 MinLat(boundary), MaxLat(boundary))))
             ELSE ClipLineLoop(boundary, coords, i + 1, clipped)

\* clipLineString throws (destructuring a null vertex) on these arguments
clipLineStringThrows(boundary, coords) ==
    boundary # NoBoundary /\ \E i \in 1..Len(coords) : coords[i] = NullVertex

\* mutant: an outside vertex followed by an inside one is clamped wherever it stands
clipLineString_ClampsAnywhere(boundary, coords) ==
    IF boundary = NoBoundary THEN coords
    ELSE Flatten([i \in 1..Len(coords) |->
             IF InsideBox(boundary, coords[i][1], coords[i][2]) THEN <<coords[i]>>
             ELSE IF i < Len(coords) /\ InsideBox(boundary, coords[i + 1][1], coords[i + 1][2])
             THEN <<clipPointToBoundary(coords[i][1], coords[i][2],
                                        MinLon(boundary), MaxLon(boundary),
                                        MinLat(boundary), MaxLat(boundary))>>
             ELSE <<>>])

clipLineString(boundary, coords) ==
    IF boundary = NoBoundary THEN coords
    ELSE ClipLineLoop(boundary, coords, 1, <<>>)

\* mutant: the filtered ring is not closed again
ClipRing_NoClose(boundary, ring) ==
    SelectSeq(ring, LAMBDA p : InsideBox(boundary, p[1], p[2]))

\* mutant: the first vertex is appended to every ring of 3 vertices or more
ClipRing_AlwaysAppends(boundary, ring) ==
    LET clipped == SelectSeq(ring, LAMBDA p : InsideBox(boundary, p[1], p[2]))
    IN  IF Len(clipped) >= 3 THEN Append(clipped, clipped[1]) ELSE clipped

\* the callback of rings.map in clipPolygon
ClipRing(boundary, ring) ==
    LET clipped == SelectSeq(ring, LAMBDA p : InsideBox(boundary, p[1], p[2]))
    IN  IF Len(clipped) >= 3 /\ clipped[1] # clipped[Len(clipped)]
        THEN Append(clipped, clipped[1])
        ELSE clipped

clipPolygonThrows(boundary, rings) ==
    /\ boundary # NoBoundary
    /\ \E r \in 1..Len(rings) : \E i \in 1..Len(rings[r]) : rings[r][i] = NullVertex

clipPolygon(boundary, rings) ==
    IF boundary = NoBoundary THEN rings
    ELSE SelectSeq(Map(rings, LAMBDA ring : ClipRing(boundary, ring)),
                   LAMBDA ring : Len(ring) >= 4)

(***************************************************************************)
(* clipFeatureToBoundary                                                   *)
(***************************************************************************)
\* outcomes of a call: a returned value (<<>> is null, <<f>> the feature f)
\* or a thrown exception
Returned(value) == [status |-> "return", value |-> value]
Thrown == [status |-> "throw", value |-> <<>>]

\* the body of the try block of clipFeatureToBoundary, followed by `return feature`
ClipTry(boundary, feature) ==
    LET geomType == feature.geometry.type
        has == feature.geometry.hasCoordinates
        coordinates == feature.geometry.coordinates
    IN  CASE geomType = "Point" ->
                 IF ~has THEN Thrown
                 ELSE IF ~isPointInBoundary(boundary, coordinates[1], coordinates[2])
                 THEN Returned(<<>>)
                 ELSE Returned(<<feature>>)
          [] geomType = "LineString" ->
                 IF ~has \/ clipLineStringThrows(boundary, coordinates) THEN Thrown
                 ELSE LET clipped == clipLineString(boundary, coordinates)
                      IN  IF Len(clipped) < 2 THEN Returned(<<>>)
                          ELSE Returned(<<SetCoordinates(feature, clipped)>>)
          [] geomType = "Polygon" ->
                 IF ~has \/ clipPolygonThrows(boundary, coordinates) THEN Thrown
                 ELSE LET clipped == clipPolygon(boundary, coordinates)
                      IN  IF Len(clipped) = 0 \/ Len(clipped[1]) < 4 THEN Returned(<<>>)
                          ELSE Returned(<<SetCoordinates(feature, clipped)>>)
          [] geomType = "MultiLineString" ->
                 IF ~has \/ \E l \in 1..Len(coordinates) :
                                clipLineStringThrows(boundary, coordinates[l])
                 THEN Thrown
                 ELSE LET clipped ==
                            SelectSeq(Map(coordinates,
                                          LAMBDA line : clipLineString(boundary, line)),
                                      LAMBDA line : Len(line) >= 2)
                      IN  IF Len(clipped) = 0 THEN Returned(<<>>)
                          ELSE Returned(<<SetCoordinates(feature, clipped)>>)
          [] OTHER -> Returned(<<feature>>)

\* mutant: a MultiLineString none of whose components survives is returned empty
clipFeatureToBoundary_KeepsEmptyMultiLine(boundary, feature) ==
    IF boundary = NoBoundary \/ ~HasGeometry(feature)
    THEN Returned(<<feature>>)
    ELSE LET outcome == ClipTry(boundary, feature)
         IN  IF outcome.status = "throw" THEN Returned(<<>>)
             ELSE IF feature.geometry.type = "MultiLineString" /\ outcome.value = <<>>
             THEN Returned(<<SetCoordinates(feature, <<>>)>>)
             ELSE outcome

\* mutant: no try/catch around the clipping
clipFeatureToBoundary_NoCatch(boundary, feature) ==
    IF boundary = NoBoundary \/ ~HasGeometry(feature)
    THEN Returned(<<feature>>)
    ELSE ClipTry(boundary, feature)

clipFeatureToBoundary(boundary, feature) ==
    IF boundary = NoBoundary \/ ~HasGeometry(feature)
    THEN Returned(<<feature>>)
    ELSE LET outcome == ClipTry(boundary, feature)
         IN  IF outcome.status = "throw" THEN Returned(<<>>)   \* catch (e)
             ELSE outcome

(***************************************************************************)
(* osmToGeoJSON                                                            *)
(***************************************************************************)
Node(id, lon, lat, tags) ==
    [type |-> "node", id |-> id, lon |-> lon, lat |-> lat, tags |-> tags]

Way(id, nodes, tags) ==
    [type |-> "way", id |-> id, nodes |-> nodes, tags |-> tags]

Member(type, ref, role) == [type |-> type, ref |-> ref, role |-> role]

Relation(id, members, tags) ==
    [type |-> "relation", id |-> id, members |-> members, tags |-> tags]

\* nodes[id] is set: some node element has this id
HasNode(elements, id) ==
    \E i \in 1..Len(elements) : elements[i].type = "node" /\ elements[i].id = id

\* nodes[id]: the last node element with this id (a later one overwrites)
NodeOf(elements, id) ==
    LET at == {i \in 1..Len(elements) :
                  elements[i].type = "node" /\ elements[i].id = id}
    IN  elements[CHOOSE i \in at : \A j \in at : j <= i]

\* mutant: a reference that does not resolve stops the resolution
ResolveCoords_StopsAtDangling(elements, refs) ==
    LET bad == {i \in 1..Len(refs) : ~HasNode(elements, refs[i])}
        upto == IF bad = {} THEN Len(refs)
                ELSE (CHOOSE i \in bad : \A j \in bad : i <= j) - 1
    IN  [i \in 1..upto |-> <<NodeOf(elements, refs[i]).lon, NodeOf(elements, refs[i]).lat>>]

\* way.nodes.map(id => nodes[id] ? [lon, lat] : null).filter(c => c !== null)
ResolveCoords(elements, refs) ==
    SelectSeq(Map(refs, LAMBDA id : IF HasNode(elements, id)
                                    THEN <<NodeOf(elements, id).lon, NodeOf(elements, id).lat>>
                                    ELSE NullVertex),
              LAMBDA c : c # NullVertex)

\* the indices of the elements of one type, in input order (the buckets ways, relations)
Bucket(elements, type) ==
    SelectSeq(Indices(elements), LAMBDA i : elements[i].type = type)

\* one iteration of the node pass: the features it pushes
NodeStep(boundary, elements, i) ==
    LET el == elements[i]
    IN  IF /\ el.type = "node"
           /\ el.lat # 0 /\ el.lon # 0                  \* el.lat && el.lon
           /\ el.tags.defined /\ Keys(el.tags) # {}
           /\ isPointInBoundary(boundary, el.lon, el.lat)
        THEN << Feature(Geometry("Point", <<el.lon, el.lat>>), cleanProperties(el.tags), i) >>
        ELSE <<>>

\* the push that ends the way and relation iterations
PushClipped(boundary, feature) ==
    LET outcome == clipFeatureToBoundary(boundary, feature)
    IN  IF /\ outcome.value # <<>>
           /\ HasGeometry(outcome.value[1])
           /\ Len(outcome.value[1].geometry.coordinates) > 0
        THEN outcome.value
        ELSE <<>>

\* one iteration of the way pass: the features it pushes
WayStep(boundary, elements, i) ==
    LET way == elements[i]
        coords == ResolveCoords(elements, way.nodes)
        isClosed == way.nodes[1] = way.nodes[Len(way.nodes)]
        isArea == isAreaFeature(way.tags, isClosed, Len(coords))
    IN  IF Len(way.nodes) = 0 THEN <<>>
        ELSE IF Len(coords) = 0 THEN <<>>
        ELSE PushClipped(boundary,
                 Feature(Geometry(IF isArea THEN "Polygon" ELSE "LineString",
                                  IF isArea THEN <<coords>> ELSE coords),
                         cleanProperties(way.tags), i))

\* ways.find(w => w.id === ref): <<>> or the first way with this id
FindWay(elements, ref) ==
    LET found == SelectSeq(Bucket(elements, "way"), LAMBDA i : elements[i].id = ref)
    IN  IF found = <<>> THEN <<>> ELSE <<elements[found[1]]>>

\* mutant: the member's kind is not looked at
MemberCoords_AnyKind(elements, member) ==
    IF member.ref # 0 /\ FindWay(elements, member.ref) # <<>>
    THEN LET coords == ResolveCoords(elements, FindWay(elements, member.ref)[1].nodes)
         IN  IF Len(coords) > 0 THEN <<coords>> ELSE <<>>
    ELSE <<>>

\* the coordinate sequences one member contributes to memberCoords
MemberCoords(elements, member) ==
    IF member.type = "way" /\ member.ref # 0 /\ FindWay(elements, member.ref) # <<>>
    THEN LET coords == ResolveCoords(elements, FindWay(elements, member.ref)[1].nodes)
         IN  IF Len(coords) > 0 THEN <<coords>> ELSE <<>>
    ELSE <<>>

\* one iteration of the relation pass: the features it pushes
RelationStep(boundary, elements, i) ==
    LET relation == elements[i]
        memberCoords ==
            Flatten(Map(relation.members, LAMBDA m : MemberCoords(elements, m)))
    IN  IF Len(relation.members) > 0 /\ Len(memberCoords) > 0
        THEN PushClipped(boundary,
                 Feature(Geometry("MultiLineString", memberCoords),
                         cleanProperties(relation.tags), i))
        ELSE <<>>

\* mutant: one pass over the elements, each feature pushed where its element stands
osmToGeoJSON_SinglePass(boundary, elements) ==
    Flatten(Map(Indices(elements),
                LAMBDA i : CASE elements[i].type = "node" -> NodeStep(boundary, elements, i)
                             [] elements[i].type = "way" -> WayStep(boundary, elements, i)
                             [] OTHER -> RelationStep(boundary, elements, i)))

\* geojson.features as returned by osmToGeoJSON(osmData) with osmData.elements = elements
osmToGeoJSON(boundary, elements) ==
    IF Len(elements) = 0 THEN <<>>
    ELSE    Flatten(Map(Indices(elements), LAMBDA i : NodeStep(boundary, elements, i)))
         \o Flatten(Map(Bucket(elements, "way"), LAMBDA i : WayStep(boundary, elements, i)))
         \o Flatten(Map(Bucket(elements, "relation"),
                        LAMBDA i : RelationStep(boundary, elements, i)))

\* Object.keys(nodes).length: the number of distinct node ids
NodeKeys(elements) ==
    Cardinality({elements[i].id : i \in {j \in 1..Len(elements) : elements[j].type = "node"}})

\* the ways whose iteration reaches processed++ (the others return early)
CountedWays(elements) ==
    SelectSeq(Bucket(elements, "way"),
              LAMBDA i : /\ Len(elements[i].nodes) > 0
                         /\ Len(ResolveCoords(elements, elements[i].nodes)) > 0)

ProgressEvent(stage, message, progress) ==
    [stage |-> stage, message |-> message, progress |-> progress]

\* the events the node pass delivers: processed runs over 1..totalElements
NodePassEvents(elements) ==
    LET totalElements == Len(elements)
    IN  Map(SelectSeq(Indices(elements), LAMBDA processed : processed % 100 = 0),
            LAMBDA processed : ProgressEvent("process", "Processing geometries...",
                                             (processed * 50) \div totalElements))

\* the events the way pass delivers: processed goes on from totalElements
WayPassEvents(elements) ==
    LET totalElements == Len(elements)
        ways == Bucket(elements, "way")
    IN  Map(SelectSeq(Indices(CountedWays(elements)),
                      LAMBDA k : (totalElements + k) % 50 = 0),
            LAMBDA k : ProgressEvent("process", "Processing ways...",
                           50 + (((totalElements + k - NodeKeys(elements)) * 40)
                                    \div Len(ways))))

\* the events osmToGeoJSON(osmData, onProgress) delivers to onProgress, in order
onProgress(elements) ==
    IF Len(elements) = 0 THEN <<>>
    ELSE    <<ProgressEvent("process", "Processing nodes...", 0)>>
         \o NodePassEvents(elements)
         \o WayPassEvents(elements)
         \o <<ProgressEvent("complete", "Processing complete", 100)>>

(***************************************************************************)
(* getStatistics, getSampleFeatures, filterByGeometry, export              *)
(***************************************************************************)
\* geojson.features.filter(f => f.geometry.type === type)
OfType(features, type) == SelectSeq(features, LAMBDA f : f.geometry.type = type)

\* Array.prototype.slice(0, n)
Slice(s, n) == SubSeq(s, 1, Min(n, Len(s)))

\* Math.ceil(a / b) for a >= 0, b > 0
CeilDiv(a, b) == (a + b - 1) \div b

sampleTypes == <<"Point", "LineString", "Polygon">>

\* mutant: no quota per kind, the sample is filled up to the limit
getSampleFeatures_FillsUp(features, limit) ==
    IF Len(features) = 0 THEN <<>>
    ELSE Slice(Flatten(Map(sampleTypes, LAMBDA type : OfType(features, type))), limit)

\* mutant: the concatenation of the three slices is returned as it is
getSampleFeatures_NoTruncate(features, limit) ==
    IF Len(features) = 0 THEN <<>>
    ELSE Flatten(Map(sampleTypes,
                     LAMBDA type : Slice(OfType(features, type),
                                         CeilDiv(limit, Len(sampleTypes)))))

getSampleFeatures(features, limit) ==
    IF Len(features) = 0 THEN <<>>
    ELSE Slice(Flatten(Map(sampleTypes,
                           LAMBDA type : Slice(OfType(features, type),
                                               CeilDiv(limit, Len(sampleTypes))))),
               limit)

\* the keys getStatistics counts key:value pairs of, in the order it tries them
mainFeatureTypes ==
    <<"highway", "building", "amenity", "natural", "landuse", "waterway", "shop", "leisure">>

\* the pairs one feature adds a count for; the string `${key}:${value}` is kept as
\* the pair <<key, value>>
FeatureTypeHits(feature) ==
    IF ~feature.properties.defined THEN <<>>
    ELSE Map(SelectSeq(mainFeatureTypes, LAMBDA key : Truthy(Get(feature.properties, key))),
             LAMBDA key : <<key, Get(feature.properties, key)>>)

\* Object.entries(stats.featureTypes): each pair once, in the order of its first
\* count, with the number of times it was counted
featureTypes(features) ==
    LET hits == Flatten(Map(features, FeatureTypeHits))
        firsts == SelectSeq(Indices(hits), LAMBDA i : \A j \in 1..(i - 1) : hits[j] # hits[i])
    IN  Map(firsts, LAMBDA i : [type |-> hits[i],
                                count |-> Cardinality({j \in 1..Len(hits) : hits[j] = hits[i]})])

\* entries.sort((a, b) => b[1] - a[1]): descending by count, equal counts keep their order
SortByCount(entries) ==
    LET before(j, i) ==
            \/ entries[j].count > entries[i].count
            \/ entries[j].count = entries[i].count /\ j < i
        rank(i) == 1 + Cardinality({j \in 1..Len(entries) : before(j, i)})
    IN  [p \in 1..Len(entries) |-> entries[CHOOSE i \in 1..Len(entries) : rank(i) = p]]

\* mutant: the entries are cut to 10 without being sorted
topFeatureTypes_Unsorted(entries) ==
    SubSeq(entries, 1, IF Len(entries) < 10 THEN Len(entries) ELSE 10)

\* .sort(...).slice(0, 10)
topFeatureTypes(entries) ==
    SubSeq(SortByCount(entries), 1, IF Len(entries) < 10 THEN Len(entries) ELSE 10)

\* the geometry counters and the feature-type ranking of getStatistics
getStatistics(features) ==
    LET count(types) == Len(SelectSeq(features, LAMBDA f : f.geometry.type \in types))
        known == {"Point", "MultiPoint", "LineString", "MultiLineString",
                  "Polygon", "MultiPolygon"}
    IN  [totalFeatures |-> Len(features),
         points |-> count({"Point", "MultiPoint"}),
         lines |-> count({"LineString", "MultiLineString"}),
         polygons |-> count({"Polygon", "MultiPolygon"}),
         other |-> Len(SelectSeq(features, LAMBDA f : f.geometry.type \notin known)),
         topFeatureTypes |-> topFeatureTypes(featureTypes(features))]

\* typeMap[type], the empty set for a type that is no key of typeMap
typeMap(type) ==
    CASE type = "Point" -> {"Point", "MultiPoint"}
      [] type = "LineString" -> {"LineString", "MultiLineString"}
      [] type = "Polygon" -> {"Polygon", "MultiPolygon"}
      [] OTHER -> {}

\* mutant: only the geometry types named in the list itself are allowed
filterByGeometry_ExactType(features, allowedTypes) ==
    SelectSeq(features,
              LAMBDA f : \E i \in 1..Len(allowedTypes) : f.geometry.type = allowedTypes[i])

filterByGeometry(features, allowedTypes) ==
    LET allowed == UNION {typeMap(allowedTypes[i]) : i \in 1..Len(allowedTypes)}
    IN  SelectSeq(features, LAMBDA f : f.geometry.type \in allowed)

exportFormats == {"geojson", "shapefile", "kml", "gpx", "osm"}

\* the elements in the order osmToXML writes them: the nodes, then the ways, then
\* the relations, each group in input order
osmToXML(elements) ==
       SelectSeq(elements, LAMBDA el : el.type = "node")
    \o SelectSeq(elements, LAMBDA el : el.type = "way")
    \o SelectSeq(elements, LAMBDA el : el.type = "relation")

\* the outcome of export(format, geojson, osmData, filename, geometryFilter):
\* what is handed to the encoder, or the error thrown
export(format, features, elements, geometryFilter) ==
    LET filtered == IF Len(geometryFilter) > 0
                    THEN filterByGeometry(features, geometryFilter)
                    ELSE features
    IN  IF Len(geometryFilter) > 0 /\ Len(filtered) = 0
        THEN [status |-> "throw",
              error |-> "Export failed: No features match the selected geometry types"]
        ELSE IF format \notin exportFormats
        THEN [status |-> "throw", error |-> "Export failed: Unsupported export format"]
        ELSE IF format = "osm"
        THEN [status |-> "return", encoder |-> "exportOSM", document |-> osmToXML(elements)]
        ELSE [status |-> "return", encoder |-> format, features |-> filtered]

(***************************************************************************)
(* Utils.isValidCoordinate, FileParser.validateCoordinates                 *)
(***************************************************************************)
isValidCoordinate(lat, lon) ==
    lat >= -90 /\ lat <= 90 /\ lon >= -180 /\ lon <= 180

\* validateCoord on one position throws: a null entry, or a pair out of range
InvalidPosition(c) == c = NullVertex \/ ~isValidCoordinate(c[2], c[1])

\* validateCoord on an array of positions throws: the empty array is read as a
\* position of undefined numbers, otherwise every entry is validated
InvalidLine(coords) ==
    Len(coords) = 0 \/ \E i \in 1..Len(coords) : InvalidPosition(coords[i])

\* validateCoord on an array of arrays of positions throws
InvalidLines(coords) ==
    Len(coords) = 0 \/ \E i \in 1..Len(coords) : InvalidLine(coords[i])

\* the outcome of validateCoordinates(geojson) for a single feature geojson
validateCoordinates(feature) ==
    IF HasGeometry(feature) /\ feature.geometry.hasCoordinates
       /\ CASE feature.geometry.type = "Point" -> InvalidPosition(feature.geometry.coordinates)
            [] feature.geometry.type = "LineString" -> InvalidLine(feature.geometry.coordinates)
            [] OTHER -> InvalidLines(feature.geometry.coordinates)
    THEN [status |-> "throw", error |-> "Invalid coordinates in geometry"]
    ELSE [status |-> "return"]

(***************************************************************************)
(* OSMService: fetchOverpassData, fetchFromEndpoint, clearCache            *)
(***************************************************************************)
overpassEndpoints ==
    <<"overpass-api.de", "overpass.kumi.systems", "overpass.openstreetmap.ru">>

\* cachedData: <<>> for null, <<data>> for the data object of a response
NoData == <<>>

\* hashQuery(query): a 32-bit hash in base 36; distinct queries may share a hash
hashQuery(query) ==
    CASE query = "qA" -> "h1"
      [] query = "qB" -> "h2"
      [] OTHER -> "h1"

\* what one request to an endpoint comes back with: a JSON body (with or without
\* an elements array, with or without a remark), an HTTP error status, a network
\* error, or the abort of the 90 second timer
JsonResponse(hasElements, elements, remark) ==
    [kind |-> "json", hasElements |-> hasElements, elements |-> elements, remark |-> remark]

HttpError(status) == [kind |-> "http", status |-> status]

NetworkError == [kind |-> "network"]

AbortError == [kind |-> "abort"]

\* the data object parsed from a JSON body
DataOf(response) ==
    [hasElements |-> response.hasElements, elements |-> response.elements,
     remark |-> response.remark]

\* mutant: the remark of the response is not looked at
fetchFromEndpoint_IgnoresRemark(index, response) ==
    LET last == Len(overpassEndpoints) - 1
        failed(error, newIndex) == [status |-> "throw", error |-> error, index |-> newIndex]
    IN  CASE response.kind = "abort" -> failed("Request timed out", index)
          [] response.kind = "network" ->
                 IF index < last
                 THEN failed("Network error, trying alternate server...", index + 1)
                 ELSE failed("Unable to connect to Overpass API", index)
          [] response.kind = "http" ->
                 IF response.status = 429 \/ response.status = 504
                 THEN failed("Server is busy", index)
                 ELSE IF index < last
                 THEN failed("Endpoint failed, trying next...", index + 1)
                 ELSE failed("HTTP error", index)
          [] OTHER ->
                 IF ~response.hasElements
                 THEN failed("Invalid response format from Overpass API", index)
                 ELSE [status |-> "return", data |-> DataOf(response), index |-> index]

\* the outcome of fetchFromEndpoint with currentEndpointIndex = index when the
\* request comes back with response: the data returned or the error thrown, and
\* the new currentEndpointIndex
\* mutant: a network or HTTP error moves on to the next endpoint without looking
\* whether there is one
fetchFromEndpoint_AlwaysAdvances(index, response) ==
    LET failed(error, newIndex) == [status |-> "throw", error |-> error, index |-> newIndex]
    IN  CASE response.kind = "abort" -> failed("Request timed out", index)
          [] response.kind = "network" ->
                 failed("Network error, trying alternate server...", index + 1)
          [] response.kind = "http" ->
                 IF response.status = 429 \/ response.status = 504
                 THEN failed("Server is busy", index)
                 ELSE failed("Endpoint failed, trying next...", index + 1)
          [] OTHER ->
                 IF ~response.hasElements
                 THEN failed("Invalid response format from Overpass API", index)
                 ELSE IF Truthy(response.remark)
                 THEN failed("Overpass API error", index)
                 ELSE [status |-> "return", data |-> DataOf(response), index |-> index]

fetchFromEndpoint(index, response) ==
    LET last == Len(overpassEndpoints) - 1
        failed(error, newIndex) == [status |-> "throw", error |-> error, index |-> newIndex]
    IN  CASE response.kind = "abort" -> failed("Request timed out", index)
          [] response.kind = "network" ->
                 IF index < last
                 THEN failed("Network error, trying alternate server...", index + 1)
                 ELSE failed("Unable to connect to Overpass API", index)
          [] response.kind = "http" ->
                 IF response.status = 429 \/ response.status = 504
                 THEN failed("Server is busy", index)
                 ELSE IF index < last
                 THEN failed("Endpoint failed, trying next...", index + 1)
                 ELSE failed("HTTP error", index)
          [] OTHER ->
                 IF ~response.hasElements
                 THEN failed("Invalid response format from Overpass API", index)
                 ELSE IF Truthy(response.remark)                 \* if (data.remark)
                 THEN failed("Overpass API error", index)
                 ELSE [status |-> "return", data |-> DataOf(response), index |-> index]

\* no fetchOverpassData call is in flight
Idle == [pc |-> "idle"]

\* a call is in flight, about to make the attempt numbered attempt
Fetching(query, attempt) == [pc |-> "fetching", query |-> query, attempt |-> attempt]

(***************************************************************************)
(* MapController: the draw history                                         *)
(***************************************************************************)
\* this.rectangle is null
NoRectangle == <<>>

\* the history entry pushed for a rectangle with these bounds
HistoryEntry(bounds) ==
    [bounds |-> [north |-> bounds.north, south |-> bounds.south,
                 east |-> bounds.east, west |-> bounds.west]]

\* mutant: the entries after the current index are kept
addToDrawHistory_KeepsFuture(history, index, bounds) ==
    LET pushed == Append(history, HistoryEntry(bounds))
    IN  IF Len(pushed) > 10
        THEN [drawHistory |-> Tail(pushed), currentHistoryIndex |-> index]
        ELSE [drawHistory |-> pushed, currentHistoryIndex |-> index + 1]

\* addToDrawHistory(bounds) on this history and index: the new history and index
addToDrawHistory(history, index, bounds) ==
    LET kept == IF index < Len(history) - 1 THEN Slice(history, index + 1) ELSE history
        pushed == Append(kept, HistoryEntry(bounds))
    IN  IF Len(pushed) > 10
        THEN [drawHistory |-> Tail(pushed), currentHistoryIndex |-> index]   \* shift(), ++ and --
        ELSE [drawHistory |-> pushed, currentHistoryIndex |-> index + 1]

(***************************************************************************)
(* Inputs                                                                  *)
(***************************************************************************)
TagsCafe == Tags({<<"amenity", "cafe">>, <<"source", "survey">>, <<"name", "">>})
TagsBuilding == Tags({<<"building", "yes">>, <<"created_by", "JOSM">>})
TagsHighway == Tags({<<"highway", "residential">>})
TagsNotArea == Tags({<<"area", "no">>, <<"building", "yes">>})

NodeTagChoices == {NoTags, Tags({}), TagsCafe}
WayTagChoices == {NoTags, TagsBuilding, TagsHighway, TagsNotArea}

\* an id no node of any input has
DanglingIds == {99}

\* one node, at every position and with every choice of tags
SingleNodeInputs ==
    {<<Node(1, lon, lat, t)>> : lon \in Coords, lat \in Coords, t \in NodeTagChoices}

\* two untagged nodes and one way over them, with every reference list
NodeTable == <<Node(1, 1, 1, NoTags), Node(2, 2, 2, NoTags)>>

WayInputs ==
    {NodeTable \o <<Way(10, refs, t)>> :
        refs \in SeqsUpTo({1, 2} \cup DanglingIds, MaxRefs), t \in WayTagChoices}

\* short lists mixing the three kinds in every order
MixedPool ==
    {Node(1, 1, 1, TagsCafe), Node(2, 2, 2, TagsCafe), Node(2, 2, 2, NoTags),
     Way(10, <<1, 2>>, TagsHighway), Way(11, <<1, 2, 1>>, TagsHighway),
     Way(11, <<99>>, TagsHighway),
     Relation(20, <<Member("way", 10, "outer")>>, TagsHighway),
     Relation(21, <<Member("node", 1, ""), Member("way", 11, "inner"), Member("way", 10, "outer")>>,
              NoTags),
     Relation(21, <<>>, TagsHighway)}

\* ids are unique per kind within one response
UniqueIds(elements) ==
    \A i, j \in 1..Len(elements) :
        (i # j /\ elements[i].type = elements[j].type) => elements[i].id # elements[j].id

MixedInputs == {e \in SeqsUpTo(MixedPool, MaxElems) : UniqueIds(e)}

\* long responses: nodes untagged nodes followed by ways ways over the first node
BulkElements(nodes, ways) ==
    [i \in 1..(nodes + ways) |->
        IF i <= nodes THEN Node(i, 1, 1, NoTags) ELSE Way(1000 + i, <<1>>, TagsHighway)]

\* responses holding a latitude or longitude outside the valid range
OutOfRangeInputs ==
    {<<Node(1, 1, 91, TagsCafe)>>,
     <<Node(1, 181, 1, TagsCafe)>>,
     <<Node(1, 0 - 181, 0 - 91, NoTags), Node(2, 1, 1, NoTags), Way(10, <<1, 2>>, TagsHighway)>>,
     <<Node(1, 1, 1, NoTags), Node(2, 2, 91, NoTags), Way(10, <<1, 2, 1, 1>>, TagsBuilding)>>}

\* responses with one relation over two nodes and three ways: the members name
\* ways, a node, a relation, a way that is not in the response and a way none of
\* whose nodes is; the relation stands before or after the ways
RelationMembers ==
    {<<Member("way", 11, "outer"), Member("node", 10, ""), Member("way", 10, "inner"),
       Member("way", 12, "outer"), Member("way", 77, "inner"), Member("relation", 11, "")>>,
     <<Member("way", 11, "inner"), Member("node", 10, "outer"), Member("way", 10, "outer"),
       Member("way", 12, ""), Member("way", 77, "outer"), Member("relation", 11, "inner")>>,
     <<Member("way", 10, "outer"), Member("way", 10, "outer")>>,
     <<Member("way", 12, "outer"), Member("way", 77, "outer"), Member("node", 1, "")>>,
     <<Member("relation", 10, "outer")>>}

RelationInputs ==
    UNION {{<<Node(1, 1, 1, NoTags), Node(2, 2, 2, NoTags), Way(10, <<1, 2>>, TagsHighway),
              Way(11, <<2, 99, 1>>, TagsBuilding), Way(12, <<99>>, TagsHighway),
              Relation(20, members, tags)>>,
            <<Relation(20, members, tags), Way(12, <<99>>, TagsHighway),
              Way(11, <<2, 99, 1>>, TagsBuilding), Node(2, 2, 2, NoTags),
              Way(10, <<1, 2>>, TagsHighway), Node(1, 1, 1, NoTags)>>} :
           members \in RelationMembers, tags \in {NoTags, TagsHighway}}

BulkInputs ==
    {BulkElements(100, 0), BulkElements(99, 1), BulkElements(50, 50),
     BulkElements(0, 50), BulkElements(200, 100)}

BoundsInputs ==
    {LatLngBounds(0, 1, 0, 1), LatLngBounds(1, 2, 1, 2), LatLngBounds(1, 1, 0, 2)}

\* features handed to clipFeatureToBoundary, by geometry type
PointFeatures ==
    {Feature(Geometry("Point", <<lon, lat>>), TagsCafe, 0) : lon \in Coords, lat \in Coords}
    \cup {Feature(Geometry("Point", <<181, 1>>), TagsCafe, 0),
          Feature(Geometry("Point", <<1, 0 - 91>>), TagsCafe, 0)}
    \cup {Feature(GeometryNoCoords("Point"), TagsCafe, 0)}

LineVertices == {<<1, 1>>, <<2, 2>>, <<0, 2>>, NullVertex}

LineFeatures ==
    {Feature(Geometry("LineString", c), TagsHighway, 0) : c \in SeqsUpTo(LineVertices, MaxLine)}
    \cup {Feature(GeometryNoCoords("LineString"), TagsHighway, 0)}

RingVertices == {<<1, 1>>, <<2, 2>>, <<0, 0>>}

RingInputs == SeqsUpTo(RingVertices, MaxRing) \cup {<<<<1, 1>>, NullVertex, <<1, 1>>, <<1, 1>>>>}

InnerRings == { <<<<1, 1>>, <<1, 1>>, <<1, 1>>, <<1, 1>>>>,
                <<<<2, 2>>, <<1, 1>>, <<2, 2>>, <<2, 2>>>> }

PolygonFeatures ==
    {Feature(Geometry("Polygon", <<r>>), TagsBuilding, 0) : r \in RingInputs}
    \cup {Feature(Geometry("Polygon", <<r, h>>), TagsBuilding, 0) :
             r \in RingInputs, h \in InnerRings}
    \cup {Feature(GeometryNoCoords("Polygon"), TagsBuilding, 0)}

MemberLines ==
    {<<<<1, 1>>, <<1, 1>>>>, <<<<2, 2>>, <<1, 1>>>>, <<<<0, 2>>>>, <<NullVertex>>,
     <<<<1, 1>>, <<0, 2>>, <<1, 1>>>>}

MultiLineFeatures ==
    {Feature(Geometry("MultiLineString", ls), TagsHighway, 0) : ls \in SeqsUpTo(MemberLines, 2)}
    \cup {Feature(GeometryNoCoords("MultiLineString"), TagsHighway, 0)}

OtherFeatures ==
    {Feature(NoGeometry, TagsCafe, 0),
     Feature(GeometryNoCoords("GeometryCollection"), TagsCafe, 0)}

\* collections handed to getStatistics, getSampleFeatures and export
KindFeature(type) ==
    CASE type = "Point" -> Feature(Geometry("Point", <<1, 1>>), TagsCafe, 0)
      [] type = "LineString" ->
             Feature(Geometry("LineString", <<<<1, 1>>, <<2, 2>>>>), TagsHighway, 0)
      [] type = "Polygon" ->
             Feature(Geometry("Polygon", <<<<<<1, 1>>, <<2, 2>>, <<2, 1>>, <<1, 1>>>>>>),
                     TagsBuilding, 0)
      [] type = "MultiPoint" ->
             Feature(Geometry("MultiPoint", <<<<1, 1>>, <<2, 2>>>>), TagsCafe, 0)
      [] type = "MultiPolygon" ->
             Feature(Geometry("MultiPolygon", <<<<<<<<1, 1>>, <<2, 2>>, <<2, 1>>, <<1, 1>>>>>>>>),
                     TagsBuilding, 0)
      [] OTHER ->
             Feature(Geometry("MultiLineString", <<<<<<1, 1>>, <<2, 2>>>>>>), TagsHighway, 0)

\* collections for the feature-type ranking: 12 distinct highway values of which the
\* last three occur twice; and one mixing keys, an empty value, a feature without
\* properties and a geometry type outside the six
HighwayValues == <<"v1", "v2", "v3", "v4", "v5", "v6", "v7", "v8", "v9", "v10", "v11", "v12">>

RankedCollection ==
    [i \in 1..15 |->
        Feature(Geometry("Point", <<1, 1>>),
                Tags({<<"highway", HighwayValues[IF i <= 12 THEN i ELSE i - 3]>>,
                      <<"name", "x">>}), i)]

MixedTagCollection ==
    <<Feature(Geometry("Point", <<1, 1>>), Tags({<<"building", "yes">>, <<"shop", "">>}), 1),
      Feature(Geometry("MultiPoint", <<<<1, 1>>>>), Tags({<<"shop", "bakery">>}), 2),
      Feature(Geometry("GeometryCollection", <<>>), NoTags, 3),
      Feature(Geometry("LineString", <<<<1, 1>>, <<2, 2>>>>),
              Tags({<<"shop", "bakery">>, <<"amenity", "cafe">>, <<"name", "cafe">>}), 4),
      Feature(Geometry("Point", <<2, 2>>), Tags({<<"amenity", "cafe">>, <<"oneway", "yes">>}), 5),
      Feature(Geometry("Point", <<2, 1>>), Tags({<<"amenity", "cafe">>}), 6)>>

CollectionKinds == {"Point", "LineString", "Polygon", "MultiPolygon"}

\* the raw elements the caller holds next to a converted collection
RawElements ==
    <<Way(10, <<1, 2>>, TagsHighway), Node(1, 1, 1, TagsCafe),
      Relation(20, <<Member("way", 10, "outer")>>, TagsHighway), Node(2, 2, 2, NoTags)>>

\* the collection with one feature of each listed kind, in this order; feature i
\* carries i as the element it was built from, which tells equal kinds apart
Collection(kinds) ==
    [i \in 1..Len(kinds) |-> [KindFeature(kinds[i]) EXCEPT !.src = i]]

\* one feature of each of the six geometry types
AllKindsCollection ==
    Collection(<<"MultiPoint", "Point", "MultiPolygon", "LineString", "Polygon",
                 "MultiLineString">>)

\* 10 Points followed by 10 LineStrings, no Polygon
TwoKindCollection ==
    Collection([i \in 1..20 |-> IF i <= 10 THEN "Point" ELSE "LineString"])

\* longest collection handed to the statistics and export operations
MaxCollection == 3

SampleLimits == {1, 2, 3, 6}

FilterInputs == {<<>>, <<"Point">>, <<"Polygon">>, <<"LineString", "Polygon">>, <<"Circle">>}

FormatInputs == {"geojson", "osm", "pdf"}

\* tag mappings handed to cleanProperties: every mapping over TagKeys
TagKeys == {"name", "building", "source", "created_by"}
TagValues == {"", NullValue, "yes"}
TagsInputs ==
    {NoTags} \cup
    UNION {{Tags({<<k, f[k]>> : k \in ks}) : f \in [ks -> TagValues]} : ks \in SUBSET TagKeys}

\* tag mappings handed to isAreaFeature: an area entry or none, one other key or
\* none, a waterway entry or none
AreaChoices == {{}, {<<"area", "yes">>}, {<<"area", "no">>}, {<<"area", "">>}}

KeyChoices ==
    {{}} \cup {{<<k, "yes">>} : k \in polygonTags}
    \cup {{<<"building", "">>}, {<<"highway", "residential">>},
          {<<"natural", "water">>}, {<<"natural", NullValue>>}}

WaterwayChoices ==
    {{}, {<<"waterway", "riverbank">>}, {<<"waterway", "dock">>}, {<<"waterway", "stream">>}}

AreaTagsInputs ==
    {NoTags} \cup
    {Tags(a \cup k \cup w) : a \in AreaChoices, k \in KeyChoices, w \in WaterwayChoices}

\* the vertex counts handed to isAreaFeature
NodeCounts == {0, 3, 4, 5}

\* the bounds of the rectangles drawn on the map
DrawnBounds == {LatLngBounds(0, 1, 0, 1), LatLngBounds(1, 2, 1, 2)}

\* the queries handed to fetchOverpassData
QueryInputs == {"qA", "qB", "qC"}

\* what the endpoints answer
ResponseInputs ==
    {JsonResponse(TRUE, NodeTable, NullValue),
     JsonResponse(TRUE, <<>>, NullValue),
     JsonResponse(TRUE, <<>>, "runtime error: Query timed out"),
     JsonResponse(TRUE, NodeTable, "runtime error: out of memory"),
     JsonResponse(TRUE, <<>>, ""),
     JsonResponse(FALSE, <<>>, NullValue),
     JsonResponse(FALSE, <<>>, "rate limited"),
     HttpError(429), HttpError(500), NetworkError, AbortError}

\* what the caller holds during a run: the raw elements of a response, a single
\* feature, a converted collection together with the raw elements, or a tag mapping
Scenario(kind, elements, feature, collection, tags) ==
    [kind |-> kind, elements |-> elements, feature |-> feature,
     collection |-> collection, tags |-> tags]

NoFeature == Feature(NoGeometry, NoTags, 0)

(***************************************************************************)
(* State machine                                                           *)
(***************************************************************************)
\* setClipBoundary(bounds) called with this.clipBoundary = boundary: the new value
\* of clipBoundary; bounds is <<>> for a falsy argument, <<b>> for the LatLngBounds b
\* mutant: a falsy argument leaves the boundary as it is
setClipBoundary_KeepsOnNull(boundary, bounds) ==
    IF bounds = <<>> THEN boundary ELSE BoundaryRing(bounds[1])

setClipBoundary(boundary, bounds) ==
    IF bounds = <<>> THEN NoBoundary ELSE BoundaryRing(bounds[1])

Init ==
    /\ clipBoundary = NoBoundary
    /\ lastSet = <<>>
    /\ call = [op |-> "none"]
    /\ ret = [status |-> "none"]
    /\ cachedData = NoData
    /\ cachedQuery = NullValue
    /\ currentEndpointIndex = 0
    /\ fetch = Idle
    /\ rectangle = NoRectangle
    /\ drawHistory = <<>>
    /\ currentHistoryIndex = 0 - 1
    /\ \/ \E e \in SingleNodeInputs \cup WayInputs \cup MixedInputs \cup BulkInputs
                      \cup OutOfRangeInputs \cup RelationInputs :
              input = Scenario("elements", e, NoFeature, <<>>, NoTags)
       \/ \E f \in PointFeatures : input = Scenario("feature", <<>>, f, <<>>, NoTags)
       \/ \E f \in LineFeatures : input = Scenario("feature", <<>>, f, <<>>, NoTags)
       \/ \E f \in PolygonFeatures : input = Scenario("feature", <<>>, f, <<>>, NoTags)
       \/ \E f \in MultiLineFeatures : input = Scenario("feature", <<>>, f, <<>>, NoTags)
       \/ \E f \in OtherFeatures : input = Scenario("feature", <<>>, f, <<>>, NoTags)
       \/ \E kinds \in SeqsUpTo(CollectionKinds, MaxCollection) :
              input = Scenario("collection", RawElements, NoFeature, Collection(kinds), NoTags)
       \/ input = Scenario("collection", RawElements, NoFeature, TwoKindCollection, NoTags)
       \/ input = Scenario("collection", RawElements, NoFeature, AllKindsCollection, NoTags)
       \/ input = Scenario("collection", RawElements, NoFeature, RankedCollection, NoTags)
       \/ input = Scenario("collection", RawElements, NoFeature, MixedTagCollection, NoTags)
       \/ \E t \in TagsInputs : input = Scenario("tags", <<>>, NoFeature, <<>>, t)
       \/ input = Scenario("fetch", <<>>, NoFeature, <<>>, NoTags)
       \/ input = Scenario("map", <<>>, NoFeature, <<>>, NoTags)
       \/ \E t \in AreaTagsInputs : input = Scenario("areatags", <<>>, NoFeature, <<>>, t)

SetClipBoundary ==
    \E bounds \in {<<>>} \cup {<<b>> : b \in BoundsInputs} :
        /\ clipBoundary' = setClipBoundary(clipBoundary, bounds)
        /\ lastSet' = bounds
        /\ call' = [op |-> "setClipBoundary"]
        /\ ret' = [status |-> "return"]
        /\ UNCHANGED <<input, service, mapController>>

Convert ==
    /\ input.kind = "elements"
    /\ \E sink \in BOOLEAN :
          /\ call' = [op |-> "osmToGeoJSON", onProgress |-> sink]
          /\ ret' = [status |-> "return",
                     features |-> osmToGeoJSON(clipBoundary, input.elements),
                     events |-> IF sink THEN onProgress(input.elements) ELSE <<>>]
    /\ UNCHANGED <<clipBoundary, input, lastSet, service, mapController>>

ClipFeature ==
    /\ input.kind = "feature"
    /\ call' = [op |-> "clipFeatureToBoundary"]
    /\ ret' = clipFeatureToBoundary(clipBoundary, input.feature)
    /\ UNCHANGED <<clipBoundary, input, lastSet, service, mapController>>

ValidateCoordinates ==
    /\ input.kind = "feature"
    /\ call' = [op |-> "validateCoordinates"]
    /\ ret' = validateCoordinates(input.feature)
    /\ UNCHANGED <<clipBoundary, input, lastSet, service, mapController>>

IsAreaFeature ==
    /\ input.kind = "areatags"
    /\ \E isClosed \in BOOLEAN, nodeCount \in NodeCounts :
          /\ call' = [op |-> "isAreaFeature", isClosed |-> isClosed, nodeCount |-> nodeCount]
          /\ ret' = [status |-> "return",
                     area |-> isAreaFeature(input.tags, isClosed, nodeCount)]
    /\ UNCHANGED <<clipBoundary, input, lastSet, service, mapController>>

CleanProperties ==
    /\ input.kind = "tags"
    /\ call' = [op |-> "cleanProperties"]
    /\ ret' = [status |-> "return", properties |-> cleanProperties(input.tags)]
    /\ UNCHANGED <<clipBoundary, input, lastSet, service, mapController>>

GetStatistics ==
    /\ input.kind = "collection"
    /\ call' = [op |-> "getStatistics"]
    /\ ret' = [status |-> "return", stats |-> getStatistics(input.collection)]
    /\ UNCHANGED <<clipBoundary, input, lastSet, service, mapController>>

GetSampleFeatures ==
    /\ input.kind = "collection"
    /\ \E limit \in SampleLimits :
          /\ call' = [op |-> "getSampleFeatures", limit |-> limit]
          /\ ret' = [status |-> "return",
                     samples |-> getSampleFeatures(input.collection, limit)]
    /\ UNCHANGED <<clipBoundary, input, lastSet, service, mapController>>

FilterByGeometry ==
    /\ input.kind = "collection"
    /\ \E allowedTypes \in FilterInputs :
          /\ call' = [op |-> "filterByGeometry", allowedTypes |-> allowedTypes]
          /\ ret' = [status |-> "return",
                     features |-> filterByGeometry(input.collection, allowedTypes)]
    /\ UNCHANGED <<clipBoundary, input, lastSet, service, mapController>>

Export ==
    /\ input.kind = "collection"
    /\ \E format \in FormatInputs, geometryFilter \in FilterInputs :
          /\ call' = [op |-> "export", format |-> format, geometryFilter |-> geometryFilter]
          /\ ret' = export(format, input.collection, input.elements, geometryFilter)
    /\ UNCHANGED <<clipBoundary, input, lastSet, service, mapController>>

\* fetchOverpassData(query) up to its first await: the cache answers, or the
\* endpoint index is reset and the first attempt begins
FetchOverpassData ==
    /\ input.kind = "fetch"
    /\ fetch = Idle
    /\ \E query \in QueryInputs :
          /\ call' = [op |-> "fetchOverpassData", query |-> query]
          /\ IF cachedQuery = hashQuery(query) /\ cachedData # NoData
             THEN /\ ret' = [status |-> "return", data |-> cachedData[1], attempts |-> 0]
                  /\ UNCHANGED <<currentEndpointIndex, fetch>>
             ELSE /\ ret' = [status |-> "pending", lastError |-> NullValue]
                  /\ currentEndpointIndex' = 0
                  /\ fetch' = Fetching(query, 0)
    /\ UNCHANGED <<clipBoundary, input, lastSet, cachedData, cachedQuery, mapController>>

\* one iteration of the retry loop: fetchFromEndpoint gets its response; on success
\* the data is cached and returned, on failure the loop goes on or, after the last
\* attempt, the call throws
FetchAttempt ==
    /\ input.kind = "fetch"
    /\ fetch.pc = "fetching"
    /\ \E response \in ResponseInputs :
          LET outcome == fetchFromEndpoint(currentEndpointIndex, response)
              attempt == fetch.attempt + 1
          IN  /\ currentEndpointIndex' = outcome.index
              /\ IF outcome.status = "return"
                 THEN /\ cachedData' = <<outcome.data>>
                      /\ cachedQuery' = hashQuery(fetch.query)
                      /\ ret' = [status |-> "return", data |-> outcome.data,
                                 attempts |-> attempt]
                      /\ fetch' = Idle
                 ELSE /\ UNCHANGED <<cachedData, cachedQuery>>
                      /\ IF attempt < Len(overpassEndpoints) * 2
                         THEN /\ ret' = [status |-> "pending", lastError |-> outcome.error]
                              /\ fetch' = Fetching(fetch.query, attempt)
                         ELSE /\ ret' = [status |-> "throw",
                                         error |-> "Unable to fetch data from any Overpass API server",
                                         lastError |-> outcome.error,
                                         attempts |-> attempt]
                              /\ fetch' = Idle
    /\ UNCHANGED <<clipBoundary, input, lastSet, call, mapController>>

ClearCache ==
    /\ input.kind = "fetch"
    /\ cachedData' = NoData
    /\ cachedQuery' = NullValue
    /\ UNCHANGED <<clipBoundary, input, lastSet, call, ret, currentEndpointIndex, fetch,
                   mapController>>

\* the mouse-up handler of a drawn rectangle: it becomes this.rectangle and its
\* bounds are added to the history
AddToDrawHistory ==
    /\ input.kind = "map"
    /\ \E bounds \in DrawnBounds :
          LET added == addToDrawHistory(drawHistory, currentHistoryIndex, bounds)
          IN  /\ rectangle' = <<bounds>>
              /\ drawHistory' = added.drawHistory
              /\ currentHistoryIndex' = added.currentHistoryIndex
              /\ call' = [op |-> "addToDrawHistory", bounds |-> bounds]
              /\ ret' = [status |-> "return"]
    /\ UNCHANGED <<clipBoundary, input, lastSet, service>>

UndoDrawing ==
    /\ input.kind = "map"
    /\ call' = [op |-> "undoDrawing"]
    /\ IF currentHistoryIndex > 0
       THEN /\ currentHistoryIndex' = currentHistoryIndex - 1
            /\ LET prevDrawing == drawHistory[currentHistoryIndex' + 1]
               IN  rectangle' = <<LatLngBounds(prevDrawing.bounds.west, prevDrawing.bounds.east,
                                               prevDrawing.bounds.south, prevDrawing.bounds.north)>>
            /\ ret' = [status |-> "return", shown |-> "Undo applied"]
            /\ UNCHANGED drawHistory
       ELSE /\ ret' = [status |-> "return", shown |-> "Nothing to undo"]
            /\ UNCHANGED mapController
    /\ UNCHANGED <<clipBoundary, input, lastSet, service>>

ClearSelection ==
    /\ input.kind = "map"
    /\ rectangle' = NoRectangle
    /\ drawHistory' = <<>>
    /\ currentHistoryIndex' = 0 - 1
    /\ call' = [op |-> "clearSelection"]
    /\ ret' = [status |-> "return"]
    /\ UNCHANGED <<clipBoundary, input, lastSet, service>>

Next ==
    \/ SetClipBoundary
    \/ Convert
    \/ ClipFeature
    \/ ValidateCoordinates
    \/ IsAreaFeature
    \/ CleanProperties
    \/ GetStatistics
    \/ GetSampleFeatures
    \/ FilterByGeometry
    \/ Export
    \/ FetchOverpassData
    \/ FetchAttempt
    \/ ClearCache
    \/ AddToDrawHistory
    \/ UndoDrawing
    \/ ClearSelection

Spec == Init /\ [][Next]_vars

(***************************************************************************)
(* Vocabulary of the properties                                            *)
(***************************************************************************)
AfterConvert == call.op = "osmToGeoJSON"
AfterClip == call.op = "clipFeatureToBoundary"

\* the features of the returned collection built from element i
FeaturesFrom(i) == SelectSeq(ret.features, LAMBDA f : f.src = i)

WayIndices == {i \in 1..Len(input.elements) : input.elements[i].type = "way"}
NodeIndices == {i \in 1..Len(input.elements) : input.elements[i].type = "node"}

\* the node reference id resolves in the element list
Resolvable(id) ==
    \E n \in NodeIndices : input.elements[n].id = id

\* the position of the node with this id (ids are unique per kind)
PositionOf(id) ==
    LET n == CHOOSE n \in NodeIndices : input.elements[n].id = id
    IN  <<input.elements[n].lon, input.elements[n].lat>>

\* the resolvable references of a way, in reference order
ResolvableRefs(way) == SelectSeq(way.nodes, LAMBDA id : Resolvable(id))

\* their positions
ExpectedCoords(way) == Map(ResolvableRefs(way), LAMBDA id : PositionOf(id))

\* the positions of a LineString or of the single ring of a Polygon
Positions(f) ==
    IF f.geometry.type = "Polygon" THEN f.geometry.coordinates[1]
    ELSE f.geometry.coordinates

\* closed, every reference resolved, at least 4 coordinates
ClosedResolvedWay(way) ==
    /\ Len(way.nodes) >= 4
    /\ way.nodes[1] = way.nodes[Len(way.nodes)]
    /\ \A k \in 1..Len(way.nodes) : Resolvable(way.nodes[k])

\* C1: with no clip boundary, a closed way whose references all resolve to at
\* least 4 coordinates yields exactly one feature: a Polygon with the single ring
\* of the resolved coordinates when it carries building=yes and no area tag, a
\* LineString with the same coordinates when it carries only a highway tag.
C1_ClosedWayGeometry ==
    (AfterConvert /\ clipBoundary = NoBoundary) =>
        \A i \in WayIndices :
            LET way == input.elements[i]
                fs == FeaturesFrom(i)
            IN  ClosedResolvedWay(way) =>
                  /\ (Get(way.tags, "building") = "yes" /\ ~HasKey(way.tags, "area")) =>
                        /\ Len(fs) = 1
                        /\ fs[1].geometry.type = "Polygon"
                        /\ fs[1].geometry.coordinates = <<ExpectedCoords(way)>>
                        /\ Len(ExpectedCoords(way)) = Len(way.nodes)
                        /\ Positions(fs[1])[1] = Positions(fs[1])[Len(way.nodes)]
                  /\ (way.tags.defined /\ Keys(way.tags) = {"highway"}) =>
                        /\ Len(fs) = 1
                        /\ fs[1].geometry.type = "LineString"
                        /\ fs[1].geometry.coordinates = ExpectedCoords(way)

\* a closed building way over both nodes was converted to a Polygon
C1_Witness ==
    /\ AfterConvert /\ clipBoundary = NoBoundary
    /\ \E i \in WayIndices :
          /\ ClosedResolvedWay(input.elements[i])
          /\ Get(input.elements[i].tags, "building") = "yes"
          /\ {input.elements[i].nodes[k] : k \in 1..Len(input.elements[i].nodes)} = {1, 2}
          /\ Len(FeaturesFrom(i)) = 1
          /\ FeaturesFrom(i)[1].geometry.type = "Polygon"

\* the statement about the coordinate count of a way, for the ways of the input
CoordCountMatches(i) ==
    LET way == input.elements[i]
        fs == FeaturesFrom(i)
    IN  IF Len(ResolvableRefs(way)) = 0 THEN Len(fs) = 0
        ELSE /\ Len(fs) = 1
             /\ fs[1].geometry.type \in {"LineString", "Polygon"}
             /\ fs[1].geometry.type = "Polygon" => Len(fs[1].geometry.coordinates) = 1
             /\ Positions(fs[1]) = ExpectedCoords(way)

\* the element list without its element i
Without(elements, i) == SubSeq(elements, 1, i - 1) \o SubSeq(elements, i + 1, Len(elements))

\* two collections hold the same geometries and properties in the same order
SameCollection(fs, gs) ==
    /\ Len(fs) = Len(gs)
    /\ \A k \in 1..Len(fs) :
          /\ fs[k].geometry.type = gs[k].geometry.type
          /\ fs[k].geometry.coordinates = gs[k].geometry.coordinates
          /\ fs[k].properties = gs[k].properties

\* a way without a resolvable reference yields nothing and changes nothing else
UnresolvedWaySkipped(i) ==
    Len(ResolvableRefs(input.elements[i])) = 0 =>
        /\ Len(FeaturesFrom(i)) = 0
        /\ SameCollection(ret.features,
                          osmToGeoJSON(clipBoundary, Without(input.elements, i)))

\* C2 (as stated): every way yields a geometry with exactly as many coordinates
\* as it has resolvable references, in reference order, and none when no
\* reference resolves.
C2_Original ==
    AfterConvert => \A i \in WayIndices : CoordCountMatches(i) /\ UnresolvedWaySkipped(i)

\* C2 (amended): with no clip boundary set the emitted geometry has exactly as
\* many coordinates as the way has resolvable references, in reference order;
\* with or without a boundary, a way none of whose references resolve yields no
\* feature and the features of the other elements are what they are without it.
C2_DanglingRefsSkipped ==
    AfterConvert =>
        \A i \in WayIndices :
            /\ clipBoundary = NoBoundary => CoordCountMatches(i)
            /\ UnresolvedWaySkipped(i)

\* a way with a dangling reference between two resolved ones was converted
C2_Witness ==
    /\ AfterConvert /\ clipBoundary = NoBoundary
    /\ \E i \in WayIndices :
          /\ input.elements[i].nodes = <<1, 99, 2>>
          /\ Len(FeaturesFrom(i)) = 1
          /\ Positions(FeaturesFrom(i)[1]) = <<<<1, 1>>, <<2, 2>>>>

\* lat in [-90, 90] and lon in [-180, 180]
InRange(lat, lon) == lat >= -90 /\ lat <= 90 /\ lon >= -180 /\ lon <= 180

\* the position is inside the box last handed to setClipBoundary (or none was)
InsideActiveBox(lon, lat) ==
    lastSet = <<>> \/
        /\ lastSet[1].west <= lon /\ lon <= lastSet[1].east
        /\ lastSet[1].south <= lat /\ lat <= lastSet[1].north

\* the tag mapping is present and has at least one tag
HasSomeTag(tags) == tags.defined /\ tags.entries # {}

\* C3 (as stated): every node with a lat in [-90,90], a lon in [-180,180] and at
\* least one tag that lies inside the active clip boundary yields exactly one
\* Point feature with coordinates [lon, lat] and the cleaned tags; a node
\* without tags yields no feature.
C3_Original ==
    AfterConvert =>
        \A i \in NodeIndices :
            LET el == input.elements[i]
                fs == FeaturesFrom(i)
            IN  /\ (/\ InRange(el.lat, el.lon)
                    /\ HasSomeTag(el.tags)
                    /\ InsideActiveBox(el.lon, el.lat)) =>
                        /\ Len(fs) = 1
                        /\ fs[1].geometry.type = "Point"
                        /\ fs[1].geometry.coordinates = <<el.lon, el.lat>>
                        /\ fs[1].properties = cleanProperties(el.tags)
                /\ ~HasSomeTag(el.tags) => Len(fs) = 0

\* the order class of a feature in the returned collection
Rank(f) ==
    CASE f.geometry.type = "Point" -> 1
      [] f.geometry.type \in {"LineString", "Polygon"} -> 2
      [] OTHER -> 3

\* the order class of the element a feature was built from
ElementRank(f) ==
    CASE input.elements[f.src].type = "node" -> 1
      [] input.elements[f.src].type = "way" -> 2
      [] OTHER -> 3

\* C4: in the returned collection all Point features come first, in the input
\* order of their nodes, then all LineString/Polygon features in the input
\* order of their ways, then all MultiLineString features in the input order
\* of their relations.
C4_OutputOrder ==
    AfterConvert =>
        /\ \A k \in 1..Len(ret.features) :
              /\ ret.features[k].src \in 1..Len(input.elements)
              /\ Rank(ret.features[k]) = ElementRank(ret.features[k])
              /\ Rank(ret.features[k]) = 3 =>
                     ret.features[k].geometry.type = "MultiLineString"
        /\ \A k, l \in 1..Len(ret.features) :
              k < l =>
                  \/ Rank(ret.features[k]) < Rank(ret.features[l])
                  \/ /\ Rank(ret.features[k]) = Rank(ret.features[l])
                     /\ ret.features[k].src < ret.features[l].src

\* a relation, then a way, then a tagged node in the input; the collection holds
\* the Point, then the LineString, then the MultiLineString
C4_Witness ==
    /\ AfterConvert
    /\ Len(input.elements) = 3
    /\ input.elements[1].type = "relation"
    /\ input.elements[2].type = "way"
    /\ input.elements[3].type = "node"
    /\ Len(ret.features) = 3
    /\ ret.features[1].src = 3
    /\ ret.features[2].src = 2
    /\ ret.features[3].src = 1

\* C5 (as stated): every Polygon feature of the returned collection has only
\* rings of at least 4 positions whose first position equals the last.
C5_Original ==
    AfterConvert =>
        \A k \in 1..Len(ret.features) :
            ret.features[k].geometry.type = "Polygon" =>
                \A r \in 1..Len(ret.features[k].geometry.coordinates) :
                    LET ring == ret.features[k].geometry.coordinates[r]
                    IN  Len(ring) >= 4 /\ ring[1] = ring[Len(ring)]

\* C6 (as stated): every LineString feature of the returned collection has at
\* least 2 positions.
C6_Original ==
    AfterConvert =>
        \A k \in 1..Len(ret.features) :
            ret.features[k].geometry.type = "LineString" =>
                Len(ret.features[k].geometry.coordinates) >= 2

\* the feature handed to clipFeatureToBoundary is a Point with coordinates
ClipsPoint ==
    /\ AfterClip
    /\ input.feature.geometry.type = "Point"
    /\ input.feature.geometry.hasCoordinates

\* C7: with a clip boundary (west, east, south, north) set, clipFeature on a
\* Point returns the feature unchanged iff west <= lon <= east and
\* south <= lat <= north, and null otherwise.
C7_PointClipInclusive ==
    (ClipsPoint /\ lastSet # <<>>) =>
        LET b == lastSet[1]
            lon == input.feature.geometry.coordinates[1]
            lat == input.feature.geometry.coordinates[2]
        IN  /\ ret.status = "return"
            /\ IF b.west <= lon /\ lon <= b.east /\ b.south <= lat /\ lat <= b.north
               THEN ret.value = <<input.feature>>
               ELSE ret.value = <<>>

\* boundary (0,1,0,1): the point (lon=1, lat=0) on its edge was kept
C7_Witness ==
    /\ ClipsPoint
    /\ lastSet = <<LatLngBounds(0, 1, 0, 1)>>
    /\ input.feature.geometry.coordinates = <<1, 0>>
    /\ ret.value = <<input.feature>>

\* the active boundary is the one of the last setClipBoundary call, and the
\* conversions and clips made since then used it
ActiveBoundaryIsLastSet ==
    /\ lastSet = <<>> =>
          /\ clipBoundary = NoBoundary
          /\ AfterClip => (ret.status = "return" /\ ret.value = <<input.feature>>)
    /\ lastSet # <<>> =>
          /\ clipBoundary = BoundaryRing(lastSet[1])
          /\ AfterConvert =>
                \A i \in NodeIndices :
                    LET el == input.elements[i]
                    IN  (HasSomeTag(el.tags) /\ el.lat # 0 /\ el.lon # 0) =>
                            (Len(FeaturesFrom(i)) = 1 <=> InsideActiveBox(el.lon, el.lat))
          /\ ClipsPoint =>
                (ret.value # <<>> <=>
                    InsideActiveBox(input.feature.geometry.coordinates[1],
                                    input.feature.geometry.coordinates[2]))

\* C8: the active clip boundary changes only inside setClipBoundary; after
\* setClipBoundary(b) every later conversion and clip uses b until the next
\* setClipBoundary call, and after setClipBoundary(null) clipFeature returns
\* every feature unchanged.
C8_BoundaryChangesOnlyWhenSet ==
    /\ []ActiveBoundaryIsLastSet
    /\ [][clipBoundary' # clipBoundary => call'.op = "setClipBoundary"]_vars

\* a conversion under a boundary that kept one tagged node and dropped another
C8_Witness ==
    /\ AfterConvert
    /\ lastSet # <<>>
    /\ \E i, j \in NodeIndices :
          /\ HasSomeTag(input.elements[i].tags) /\ HasSomeTag(input.elements[j].tags)
          /\ Len(FeaturesFrom(i)) = 1
          /\ Len(FeaturesFrom(j)) = 0
          /\ ~InsideActiveBox(input.elements[j].lon, input.elements[j].lat)

\* the geometry has no coordinates, or a null entry among them
Malformed(f) ==
    \/ ~f.geometry.hasCoordinates
    \/ /\ f.geometry.type = "LineString"
       /\ \E k \in 1..Len(f.geometry.coordinates) : f.geometry.coordinates[k] = NullVertex
    \/ /\ f.geometry.type \in {"Polygon", "MultiLineString"}
       /\ \E r \in 1..Len(f.geometry.coordinates) :
             \E k \in 1..Len(f.geometry.coordinates[r]) :
                 f.geometry.coordinates[r][k] = NullVertex

ClippedTypes == {"Point", "LineString", "Polygon", "MultiLineString"}

\* way i resolved some coordinates and the clip dropped its feature
DroppedByClip(i) ==
    /\ Len(ResolvableRefs(input.elements[i])) > 0
    /\ Len(FeaturesFrom(i)) = 0

\* every feature the conversion yields without element i is also yielded with it
OthersStillProcessed(i) ==
    LET others == osmToGeoJSON(clipBoundary, Without(input.elements, i))
        shift(src) == IF src > i THEN src - 1 ELSE src
    IN  /\ \A k \in 1..Len(others) :
              \E l \in 1..Len(ret.features) :
                  /\ shift(ret.features[l].src) = others[k].src
                  /\ ret.features[l].geometry.type = others[k].geometry.type
                  /\ Rank(others[k]) <= 2 =>
                        ret.features[l].geometry.coordinates = others[k].geometry.coordinates
        /\ Len(SelectSeq(others, LAMBDA f : Rank(f) <= 2))
              = Len(SelectSeq(ret.features, LAMBDA f : Rank(f) <= 2))

\* C9: with a clip boundary set, clipFeature never raises for a feature that has
\* a geometry: a failure while clipping (missing or malformed coordinates)
\* yields null; inside convert a way dropped by the clip does not keep the
\* other elements from being processed.
C9_ClipNeverRaises ==
    /\ (AfterClip /\ lastSet # <<>> /\ HasGeometry(input.feature)) =>
          /\ ret.status = "return"
          /\ (Malformed(input.feature) /\ input.feature.geometry.type \in ClippedTypes) =>
                 ret.value = <<>>
    /\ (AfterConvert /\ lastSet # <<>>) =>
          /\ ret.status = "return"
          /\ \A i \in WayIndices : DroppedByClip(i) => OthersStillProcessed(i)

\* a LineString with a null vertex was clipped to null
C9_Witness ==
    /\ AfterClip /\ lastSet # <<>>
    /\ input.feature.geometry.type = "LineString"
    /\ input.feature.geometry.hasCoordinates
    /\ Len(input.feature.geometry.coordinates) = 3
    /\ input.feature.geometry.coordinates[2] = NullVertex
    /\ ret = Returned(<<>>)

\* a conversion under a boundary that dropped one way and kept a later one
C9_WitnessConvert ==
    /\ AfterConvert /\ lastSet # <<>>
    /\ \E i, j \in WayIndices : i < j /\ DroppedByClip(i) /\ Len(FeaturesFrom(j)) = 1

\* C10: clean(tags) returns exactly the entries of tags whose value is non-empty
\* and whose key is not in {created_by, source, source:ref, attribution}, values
\* unchanged (absent tags give an empty mapping), and cleaning the result again
\* changes nothing.
C10_CleanIdempotent ==
    call.op = "cleanProperties" =>
        /\ ret.properties.defined
        /\ ret.properties.entries =
              {e \in input.tags.entries :
                  /\ e[2] \notin {"", NullValue}
                  /\ e[1] \notin {"created_by", "source", "source:ref", "attribution"}}
        /\ cleanProperties(ret.properties) = ret.properties

\* a mapping with a kept tag, a metadata key and an empty value was cleaned
C10_Witness ==
    /\ call.op = "cleanProperties"
    /\ input.tags = Tags({<<"building", "yes">>, <<"source", "yes">>, <<"name", "">>})
    /\ ret.properties = Tags({<<"building", "yes">>})

(***************************************************************************)
(* Sampling                                                                *)
(***************************************************************************)
AfterSample == call.op = "getSampleFeatures"

\* the share of one kind: the least n with 3 * n >= limit
Quota(limit) == CHOOSE n \in 0..limit : 3 * n >= limit /\ 3 * (n - 1) < limit

\* the positions in the collection of the features of one geometry type
PositionsOfType(type) ==
    {i \in 1..Len(input.collection) : input.collection[i].geometry.type = type}

\* the positions a sample draws from: for each of the three kinds the positions of
\* its first Quota(limit) features
Drawn(limit) ==
    UNION {{i \in PositionsOfType(type) :
               Cardinality({j \in PositionsOfType(type) : j < i}) < Quota(limit)} :
           type \in {"Point", "LineString", "Polygon"}}

\* 1, 2, 3 for Point, LineString, Polygon
KindRank(type) == CHOOSE r \in 1..3 : sampleTypes[r] = type

\* position i is drawn before position j: an earlier kind, or the same kind and an
\* earlier position
DrawnBefore(i, j) ==
    LET ri == KindRank(input.collection[i].geometry.type)
        rj == KindRank(input.collection[j].geometry.type)
    IN  ri < rj \/ (ri = rj /\ i < j)

\* C11: sample(collection, limit) is the first ceil(limit/3) Points, then the first
\* ceil(limit/3) LineStrings, then the first ceil(limit/3) Polygons of the collection,
\* each in collection order, cut to the first limit of them; it never has more than
\* limit features
C11_SampleComposition ==
    AfterSample =>
        LET drawn == Drawn(call.limit)
        IN  /\ Len(ret.samples) <= call.limit
            /\ Len(ret.samples) = Min(call.limit, Cardinality(drawn))
            /\ \A p \in 1..Len(ret.samples) :
                  \E i \in drawn :
                      /\ Cardinality({j \in drawn : DrawnBefore(j, i)}) = p - 1
                      /\ ret.samples[p].src = i
                      /\ ret.samples[p].geometry.type = input.collection[i].geometry.type

\* a kind holds more features than its share, and the three shares together exceed
\* the limit, so both the share and the final cut act
C11_Witness ==
    /\ AfterSample
    /\ \E type \in {"Point", "LineString", "Polygon"} :
          Cardinality(PositionsOfType(type)) > Quota(call.limit)
    /\ Cardinality(Drawn(call.limit)) > call.limit
    /\ Len(ret.samples) = call.limit

\* the features of the three sampled kinds in the collection
SampledKindCount ==
    Cardinality(UNION {PositionsOfType(type) : type \in {"Point", "LineString", "Polygon"}})

\* C12 as stated: when the collection holds at least limit features of the kinds
\* Point, LineString and Polygon together, the sample has exactly limit features,
\* even if one kind is absent
C12_Original ==
    (AfterSample /\ SampledKindCount >= call.limit) => Len(ret.samples) = call.limit

\* C12: the sample holds min(limit, sum over the three kinds of min(count of the
\* kind, ceil(limit/3))) features; on 10 Points, 10 LineStrings and no Polygon with
\* limit 6 these are 4 features, 2 Points then 2 LineStrings
C12_SampleSize ==
    AfterSample =>
        /\ Len(ret.samples) = Min(call.limit, Cardinality(Drawn(call.limit)))
        /\ (input.collection = TwoKindCollection /\ call.limit = 6) =>
              /\ Len(ret.samples) = 4
              /\ \A p \in 1..4 :
                    ret.samples[p].geometry.type = IF p <= 2 THEN "Point" ELSE "LineString"

\* the sample of limit 6 from 10 Points, 10 LineStrings and no Polygon
C12_Witness ==
    /\ AfterSample
    /\ Len(input.collection) = 20
    /\ PositionsOfType("Polygon") = {}
    /\ Cardinality(PositionsOfType("Point")) = 10
    /\ Cardinality(PositionsOfType("LineString")) = 10
    /\ call.limit = 6
    /\ Len(ret.samples) < call.limit

(***************************************************************************)
(* Geometry filter and export                                              *)
(***************************************************************************)
AfterFilter == call.op = "filterByGeometry"
AfterExport == call.op = "export"

\* the geometry type maps into the kinds list
MapsInto(type, kinds) ==
    \/ type \in {"Point", "MultiPoint"} /\ \E i \in 1..Len(kinds) : kinds[i] = "Point"
    \/ type \in {"LineString", "MultiLineString"}
          /\ \E i \in 1..Len(kinds) : kinds[i] = "LineString"
    \/ type \in {"Polygon", "MultiPolygon"} /\ \E i \in 1..Len(kinds) : kinds[i] = "Polygon"

\* the positions of the collection whose feature maps into the kinds list
Matching(kinds) ==
    {i \in 1..Len(input.collection) : MapsInto(input.collection[i].geometry.type, kinds)}

\* the features are exactly the matching features of the collection, in collection order
KeepsExactlyMatching(features, kinds) ==
    /\ Len(features) = Cardinality(Matching(kinds))
    /\ \A p \in 1..Len(features) :
          /\ features[p].src \in Matching(kinds)
          /\ features[p].geometry.type = input.collection[features[p].src].geometry.type
          /\ \A q \in 1..Len(features) : p < q => features[p].src < features[q].src

\* C13 as stated: filterByGeometry with a non-empty kinds list keeps exactly the
\* matching features and fails, instead of returning an empty collection, whenever
\* no feature matches
C13_Original ==
    (AfterFilter /\ Len(call.allowedTypes) > 0) =>
        IF Matching(call.allowedTypes) = {}
        THEN ret.status = "throw"
        ELSE ret.status = "return" /\ KeepsExactlyMatching(ret.features, call.allowedTypes)

\* C13: filterByGeometry with a non-empty kinds list returns exactly the matching
\* features, an empty collection when none matches; the failure is raised by export,
\* which fails when it is given a non-empty kinds list that no feature matches and
\* otherwise hands exactly the matching features to the encoder of a feature format
C13_FilterKeepsMatching ==
    /\ (AfterFilter /\ Len(call.allowedTypes) > 0) =>
          ret.status = "return" /\ KeepsExactlyMatching(ret.features, call.allowedTypes)
    /\ (AfterExport /\ Len(call.geometryFilter) > 0) =>
          IF Matching(call.geometryFilter) = {}
          THEN /\ ret.status = "throw"
               /\ ret.error = "Export failed: No features match the selected geometry types"
          ELSE call.format \in {"geojson", "shapefile", "kml", "gpx"} =>
                  /\ ret.status = "return"
                  /\ KeepsExactlyMatching(ret.features, call.geometryFilter)

\* filterByGeometry returned the empty collection: a collection with features, a
\* kinds list naming Polygon, and no polygon-kind feature
C13_Witness ==
    /\ AfterFilter
    /\ call.allowedTypes = <<"Polygon">>
    /\ Len(input.collection) >= 2
    /\ Matching(call.allowedTypes) = {}
    /\ ret.status = "return"
    /\ ret.features = <<>>

\* C14 as stated: export with format 'osm' writes the raw elements (nodes, then ways,
\* then relations) whatever collection and kinds filter are passed, also a filter
\* that matches no feature of the collection
C14_Original ==
    (AfterExport /\ call.format = "osm") =>
        /\ ret.status = "return"
        /\ ret.encoder = "exportOSM"
        /\ ret.document = osmToXML(input.elements)

(***************************************************************************)
(* Progress events                                                         *)
(***************************************************************************)
\* the positions of the delivered events that are 'complete' events
CompleteEvents == {k \in 1..Len(ret.events) : ret.events[k].stage = "complete"}

\* C15 as stated: when a progress sink is supplied, for every call of convert,
\* whatever the element list, the sink receives a start event first and exactly one
\* 'complete' event with progress = 100, which is the last event delivered
C15_Original ==
    (AfterConvert /\ call.onProgress) =>
        /\ Len(ret.events) >= 2
        /\ ret.events[1] = ProgressEvent("process", "Processing nodes...", 0)
        /\ CompleteEvents = {Len(ret.events)}
        /\ ret.events[Len(ret.events)].progress = 100

\* with a sink and at least one element the start event comes first and the single
\* 'complete' event with progress = 100 comes last
C15_HoldsForNonEmptyLists ==
    (AfterConvert /\ call.onProgress /\ Len(input.elements) > 0) =>
        /\ Len(ret.events) >= 2
        /\ ret.events[1] = ProgressEvent("process", "Processing nodes...", 0)
        /\ CompleteEvents = {Len(ret.events)}
        /\ ret.events[Len(ret.events)].progress = 100

\* a converted long response whose node pass and way pass both delivered events
C15_IntermediateEvents ==
    /\ AfterConvert
    /\ call.onProgress
    /\ Len(ret.events) >= 4

(***************************************************************************)
(* Coordinate validity                                                     *)
(***************************************************************************)
\* the positions of a feature convert emits (Point, LineString, Polygon or
\* MultiLineString)
EmittedPositions(f) ==
    CASE f.geometry.type = "Point" -> {f.geometry.coordinates}
      [] f.geometry.type = "LineString" ->
             {f.geometry.coordinates[i] : i \in 1..Len(f.geometry.coordinates)}
      [] OTHER ->
             UNION {{f.geometry.coordinates[r][i] : i \in 1..Len(f.geometry.coordinates[r])} :
                    r \in 1..Len(f.geometry.coordinates)}

ValidRange(position) ==
    position[1] \in (0 - 180)..180 /\ position[2] \in (0 - 90)..90

\* C16 as stated: convert never emits a feature holding a coordinate with latitude
\* outside [-90, 90] or longitude outside [-180, 180]
C16_Original ==
    AfterConvert =>
        \A p \in 1..Len(ret.features) :
            \A position \in EmittedPositions(ret.features[p]) : ValidRange(position)

\* the upload path does reject such a coordinate: validateCoordinates fails on a
\* feature holding a position out of range
C16_UploadRejects ==
    (call.op = "validateCoordinates"
        /\ input.feature.geometry.type = "Point" /\ input.feature.geometry.hasCoordinates
        /\ ~ValidRange(input.feature.geometry.coordinates))
    => ret.status = "throw"

(***************************************************************************)
(* Query-service responses                                                 *)
(***************************************************************************)
\* the data object carries a remark field
CarriesRemark(data) == data.remark # NullValue

\* fetchOverpassData has returned data to the caller
FetchReturned == call.op = "fetchOverpassData" /\ ret.status = "return"

\* C17 as stated: a response that carries a remark field is never returned by
\* fetchOverpassData as data and never stored in the cache
C17_Original ==
    /\ FetchReturned => ~CarriesRemark(ret.data)
    /\ cachedData # NoData => ~CarriesRemark(cachedData[1])

\* C17: a response that carries a non-empty remark is surfaced as a failure:
\* fetchOverpassData never returns it to the caller as data and never stores it in
\* the cache, so no later call is answered from it (a remark that is the empty
\* string counts as no remark)
C17_RemarkIsFailure ==
    /\ FetchReturned => ~Truthy(ret.data.remark)
    /\ cachedData # NoData => ~Truthy(cachedData[1].remark)

\* every attempt of a call got a response with a remark (the last one with an
\* elements array too): the call failed with the remark error and the cache is empty
C17_Witness ==
    /\ call.op = "fetchOverpassData"
    /\ ret.status = "throw"
    /\ ret.lastError = "Overpass API error"
    /\ ret.attempts = Len(overpassEndpoints) * 2
    /\ cachedData = NoData
    /\ cachedQuery = NullValue

(***************************************************************************)
(* Clipping a LineString                                                   *)
(***************************************************************************)
\* a LineString with a coordinates array free of null entries was clipped under a
\* boundary
LineClipped ==
    /\ AfterClip
    /\ clipBoundary # NoBoundary
    /\ input.feature.geometry.type = "LineString"
    /\ input.feature.geometry.hasCoordinates
    /\ \A i \in 1..Len(input.feature.geometry.coordinates) :
          input.feature.geometry.coordinates[i] # NullVertex

\* the vertices of the clipped line
Line == input.feature.geometry.coordinates

\* vertex i of the line lies inside the active boundary
VertexInside(i) == InsideActiveBox(Line[i][1], Line[i][2])

\* the coordinate-wise clamp of one number onto [low, high]
ClampTo(x, low, high) == IF x < low THEN low ELSE IF x > high THEN high ELSE x

\* the coordinate-wise clamp of vertex i onto the active boundary box
Clamped(i) ==
    <<ClampTo(Line[i][1], lastSet[1].west, lastSet[1].east),
      ClampTo(Line[i][2], lastSet[1].south, lastSet[1].north)>>

\* the clipped line is this sequence of vertices: null when it has fewer than 2
ClipsLineTo(expected) ==
    IF Len(expected) < 2 THEN ret.value = <<>>
    ELSE /\ ret.value # <<>>
         /\ ret.value[1].geometry.type = "LineString"
         /\ ret.value[1].geometry.coordinates = expected

\* C18 as stated: a vertex at any position of the line is kept if it is inside,
\* replaced by its clamp if it is outside and its immediate next vertex is inside,
\* and dropped otherwise
C18_Original ==
    LineClipped =>
        ClipsLineTo(Flatten([i \in 1..Len(Line) |->
            IF VertexInside(i) THEN <<Line[i]>>
            ELSE IF i < Len(Line) /\ VertexInside(i + 1) THEN <<Clamped(i)>>
            ELSE <<>>]))

\* C18: a vertex is kept if it is inside; replaced by its clamp if it is outside,
\* its immediate next vertex is inside and some earlier vertex of the line is inside
\* (so that something has been kept before it); dropped otherwise: an outside vertex
\* before the first inside vertex is always dropped
C18_LineClipRule ==
    LineClipped =>
        ClipsLineTo(Flatten([i \in 1..Len(Line) |->
            IF VertexInside(i) THEN <<Line[i]>>
            ELSE IF /\ i < Len(Line) /\ VertexInside(i + 1)
                    /\ \E j \in 1..(i - 1) : VertexInside(j)
            THEN <<Clamped(i)>>
            ELSE <<>>]))

\* a line that leaves the boundary and comes back: the result holds a clamped vertex
\* that is no vertex of the input
C18_Witness ==
    /\ LineClipped
    /\ ret.value # <<>>
    /\ Len(ret.value[1].geometry.coordinates) = Len(Line)
    /\ \E i \in 2..Len(Line) :
          /\ ~VertexInside(i)
          /\ ret.value[1].geometry.coordinates[i] = Clamped(i)
          /\ \A j \in 1..Len(Line) : Line[j] # Clamped(i)

(***************************************************************************)
(* Clipping a Polygon                                                      *)
(***************************************************************************)
\* a Polygon with a coordinates array free of null entries was clipped under a
\* boundary
PolygonClipped ==
    /\ AfterClip
    /\ clipBoundary # NoBoundary
    /\ input.feature.geometry.type = "Polygon"
    /\ input.feature.geometry.hasCoordinates
    /\ \A r \in 1..Len(input.feature.geometry.coordinates) :
          \A i \in 1..Len(input.feature.geometry.coordinates[r]) :
              input.feature.geometry.coordinates[r][i] # NullVertex

\* the rings of the clipped polygon
Rings == input.feature.geometry.coordinates

\* the vertices of a ring that are inside the active boundary, in their order
InsideVertices(ring) == SelectSeq(ring, LAMBDA v : InsideActiveBox(v[1], v[2]))

\* the inside vertices, with a copy of the first appended when first and last differ
Closed(ring) ==
    LET kept == InsideVertices(ring)
    IN  IF Len(kept) > 0 /\ kept[1] # kept[Len(kept)] THEN Append(kept, kept[1]) ELSE kept

\* the ring survives clipping: at least 4 positions after closing
Survives(ring) == Len(Closed(ring)) >= 4

\* C19 as stated: clipFeature on a Polygon returns null whenever the outer (first)
\* ring does not survive clipping, whether or not a later ring survives; in every
\* non-null result ring 0 is derived from ring 0 of the input
C19_Original ==
    (PolygonClipped /\ Len(Rings) > 0) =>
        /\ ~Survives(Rings[1]) => ret.value = <<>>
        /\ ret.value # <<>> => ret.value[1].geometry.coordinates[1] = Closed(Rings[1])

\* the outer ring of a 2-ring polygon is clipped away, the inner ring survives
C19_InnerRingSurvivesAlone ==
    /\ PolygonClipped
    /\ Len(Rings) = 2
    /\ ~Survives(Rings[1])
    /\ Survives(Rings[2])

\* C20: clipping a Polygon treats each ring on its own: the result holds, in ring
\* order, the surviving rings, each made of the inside vertices of its input ring in
\* their original order plus a copy of the first when the filtered first and last
\* differ; a ring survives only with at least 4 positions after closing, and the
\* result is null when no ring survives
C20_RingRule ==
    PolygonClipped =>
        LET kept == SelectSeq(Rings, LAMBDA ring : Survives(ring))
        IN  IF Len(kept) = 0 THEN ret.value = <<>>
            ELSE /\ ret.value # <<>>
                 /\ ret.value[1].geometry.type = "Polygon"
                 /\ Len(ret.value[1].geometry.coordinates) = Len(kept)
                 /\ \A r \in 1..Len(kept) :
                       ret.value[1].geometry.coordinates[r] = Closed(kept[r])

\* a ring that lost a vertex to the boundary and was closed again by a copy of its
\* first inside vertex
C20_Witness ==
    /\ PolygonClipped
    /\ Len(Rings) = 1
    /\ Len(InsideVertices(Rings[1])) < Len(Rings[1])
    /\ Len(Closed(Rings[1])) = Len(InsideVertices(Rings[1])) + 1
    /\ ret.value # <<>>
    /\ ret.value[1].geometry.coordinates = <<Closed(Rings[1])>>

(***************************************************************************)
(* Short lines and MultiLineStrings                                        *)
(***************************************************************************)
\* a MultiLineString whose components are free of null entries was clipped under a
\* boundary
MultiLineClipped ==
    /\ AfterClip
    /\ clipBoundary # NoBoundary
    /\ input.feature.geometry.type = "MultiLineString"
    /\ input.feature.geometry.hasCoordinates
    /\ \A l \in 1..Len(input.feature.geometry.coordinates) :
          \A i \in 1..Len(input.feature.geometry.coordinates[l]) :
              input.feature.geometry.coordinates[l][i] # NullVertex

\* the coordinate-wise clamp of a position onto the active boundary box
ClampedPosition(v) ==
    <<ClampTo(v[1], lastSet[1].west, lastSet[1].east),
      ClampTo(v[2], lastSet[1].south, lastSet[1].north)>>

\* the LineString rule applied to one line: inside vertices kept, an outside vertex
\* clamped when its next vertex is inside and an earlier one was inside
LineRule(line) ==
    Flatten([i \in 1..Len(line) |->
        IF InsideActiveBox(line[i][1], line[i][2]) THEN <<line[i]>>
        ELSE IF /\ i < Len(line)
                /\ InsideActiveBox(line[i + 1][1], line[i + 1][2])
                /\ \E j \in 1..(i - 1) : InsideActiveBox(line[j][1], line[j][2])
        THEN <<ClampedPosition(line[i])>>
        ELSE <<>>])

\* the components left with at least 2 vertices, in their original order
SurvivingLines(lines) ==
    SelectSeq([l \in 1..Len(lines) |-> LineRule(lines[l])], LAMBDA line : Len(line) >= 2)

\* C21: with a boundary set clipFeature returns null for a LineString left with
\* fewer than 2 vertices, and a feature otherwise; for a MultiLineString it returns
\* exactly the components left with at least 2 vertices by the LineString rule, in
\* their original order, and null when no component is left
C21_ShortLinesDropped ==
    /\ LineClipped => (ret.value = <<>> <=> Len(LineRule(Line)) < 2)
    /\ MultiLineClipped =>
          LET kept == SurvivingLines(input.feature.geometry.coordinates)
          IN  IF Len(kept) = 0 THEN ret.value = <<>>
              ELSE /\ ret.value # <<>>
                   /\ ret.value[1].geometry.type = "MultiLineString"
                   /\ ret.value[1].geometry.coordinates = kept

\* a MultiLineString of two components of which the first is clipped away and the
\* second is left
C21_Witness ==
    /\ MultiLineClipped
    /\ Len(input.feature.geometry.coordinates) = 2
    /\ Len(LineRule(input.feature.geometry.coordinates[1])) < 2
    /\ Len(LineRule(input.feature.geometry.coordinates[2])) >= 2
    /\ ret.value # <<>>
    /\ Len(ret.value[1].geometry.coordinates) = 1

\* a MultiLineString with components none of which is left: the result is null
C21_NoneSurvives ==
    /\ MultiLineClipped
    /\ Len(input.feature.geometry.coordinates) > 0
    /\ SurvivingLines(input.feature.geometry.coordinates) = <<>>
    /\ ret.value = <<>>

(***************************************************************************)
(* Area classification                                                     *)
(***************************************************************************)
AfterIsArea == call.op = "isAreaFeature"

\* the ring is closed and has at least 4 vertices
ClosedRingOfFour == call.isClosed /\ call.nodeCount >= 4

\* the tags carry this key with this value
Carries(key, value) == input.tags.defined /\ <<key, value>> \in input.tags.entries

\* the tags carry this key, with whatever value
Present(key) == input.tags.defined /\ \E e \in input.tags.entries : e[1] = key

\* the tags carry this key with a value that is neither empty nor null
PresentNonEmpty(key) ==
    input.tags.defined /\ \E e \in input.tags.entries :
                              e[1] = key /\ e[2] # "" /\ e[2] # NullValue

AreaKeys == {"building", "landuse", "amenity", "leisure", "tourism", "aeroway", "natural",
             "place", "shop", "office", "craft", "military", "public_transport"}

\* C22: isArea is false whenever the ring is not closed or has fewer than 4
\* vertices, whatever the tags; for a closed ring of at least 4 vertices area=yes
\* gives true and area=no gives false, whatever the other tags
C22_ExplicitAreaWins ==
    AfterIsArea =>
        /\ ~ClosedRingOfFour => ~ret.area
        /\ (ClosedRingOfFour /\ Carries("area", "yes")) => ret.area
        /\ (ClosedRingOfFour /\ Carries("area", "no")) => ~ret.area

\* area=no together with building=yes on a closed ring of 4 vertices or more
C22_Witness ==
    /\ AfterIsArea
    /\ ClosedRingOfFour
    /\ Carries("area", "no")
    /\ Carries("building", "yes")
    /\ ~ret.area

\* C23 as stated: for a closed ring of at least 4 vertices with neither area=yes nor
\* area=no, isArea is true iff a key of the fixed set is present in the tags or
\* waterway is riverbank or dock
C23_Original ==
    (AfterIsArea /\ ClosedRingOfFour /\ ~Carries("area", "yes") /\ ~Carries("area", "no")) =>
        (ret.area <=> \/ \E k \in AreaKeys : Present(k)
                      \/ Carries("waterway", "riverbank")
                      \/ Carries("waterway", "dock"))

\* C23: for a closed ring of at least 4 vertices with neither area=yes nor area=no,
\* isArea is true iff a key of the fixed set is present with a non-empty value or
\* waterway is riverbank or dock; a key of the set with an empty value counts as
\* absent
C23_AreaKeys ==
    (AfterIsArea /\ ClosedRingOfFour /\ ~Carries("area", "yes") /\ ~Carries("area", "no")) =>
        (ret.area <=> \/ \E k \in AreaKeys : PresentNonEmpty(k)
                      \/ Carries("waterway", "riverbank")
                      \/ Carries("waterway", "dock"))

\* waterway=dock alone, no key of the set: an area
C23_Witness ==
    /\ AfterIsArea
    /\ ClosedRingOfFour
    /\ ~Present("area")
    /\ \A k \in AreaKeys : ~Present(k)
    /\ Carries("waterway", "dock")
    /\ ret.area

\* only highway=residential: no area
C23_HighwayOnly ==
    /\ AfterIsArea
    /\ ClosedRingOfFour
    /\ input.tags.defined
    /\ input.tags.entries = {<<"highway", "residential">>}
    /\ ~ret.area

(***************************************************************************)
(* Progress values                                                         *)
(***************************************************************************)
\* the positions of the events the node pass and the way pass delivered
NodePassPositions ==
    {k \in 1..Len(ret.events) : ret.events[k].message = "Processing geometries..."}

WayPassPositions ==
    {k \in 1..Len(ret.events) : ret.events[k].message = "Processing ways..."}

\* C24 as stated: every event of the node pass carries a value in 0..50, every
\* event of the way pass a value in 50..90, only the complete event carries 100,
\* and no event carries more than 100
C24_Original ==
    (AfterConvert /\ ret.status = "return") =>
        /\ \A k \in NodePassPositions : ret.events[k].progress \in 0..50
        /\ \A k \in WayPassPositions : ret.events[k].progress \in 50..90
        /\ \A k \in 1..Len(ret.events) :
              /\ ret.events[k].progress <= 100
              /\ ret.events[k].progress = 100 => ret.events[k].stage = "complete"

\* the part of C24 that holds: the node pass stays within 0..50
C24_NodePassRange ==
    (AfterConvert /\ ret.status = "return") =>
        \A k \in NodePassPositions : ret.events[k].progress \in 0..50

\* a way-pass event above 100
C24_WayPassOvershoot ==
    /\ AfterConvert
    /\ ret.status = "return"
    /\ \E k \in WayPassPositions : ret.events[k].progress > 100

(***************************************************************************)
(* Relations                                                               *)
(***************************************************************************)
Elements == input.elements

\* the way element a member refers to is in the input
WayPresent(member) ==
    \E j \in 1..Len(Elements) : Elements[j].type = "way" /\ Elements[j].id = member.ref

WayOf(member) ==
    Elements[CHOOSE j \in 1..Len(Elements) :
                 Elements[j].type = "way" /\ Elements[j].id = member.ref]

\* the way members of relation i whose way is in the input and has a node in it
ContributingMembers(i) ==
    SelectSeq(Elements[i].members,
              LAMBDA m : /\ m.type = "way"
                         /\ WayPresent(m)
                         /\ \E k \in 1..Len(WayOf(m).nodes) :
                                HasNode(Elements, WayOf(m).nodes[k]))

ExpectedLines(i) ==
    Map(ContributingMembers(i), LAMBDA m : ResolveCoords(Elements, WayOf(m).nodes))

RelationPositions == {i \in 1..Len(Elements) : Elements[i].type = "relation"}

\* C25: with no clip boundary each relation yields at most one feature, a
\* MultiLineString whose components are, in member order, the resolved coordinate
\* sequences of its way members whose way is in the input with at least one
\* resolvable node; other members, absent ways and roles have no effect, and a
\* relation without a non-empty member sequence yields no feature
C25_RelationFeature ==
    (AfterConvert /\ clipBoundary = <<>> /\ ret.status = "return") =>
        \A i \in RelationPositions :
            IF ExpectedLines(i) = <<>>
            THEN FeaturesFrom(i) = <<>>
            ELSE /\ Len(FeaturesFrom(i)) = 1
                 /\ FeaturesFrom(i)[1].geometry.type = "MultiLineString"
                 /\ FeaturesFrom(i)[1].geometry.coordinates = ExpectedLines(i)

\* a relation with six members yields a feature of two components
C25_Witness ==
    /\ AfterConvert
    /\ clipBoundary = <<>>
    /\ ret.status = "return"
    /\ \E i \in RelationPositions :
          /\ Len(Elements[i].members) = 6
          /\ Len(FeaturesFrom(i)) = 1
          /\ FeaturesFrom(i)[1].geometry.coordinates =
                 <<<<<<2, 2>>, <<1, 1>>>>, <<<<1, 1>>, <<2, 2>>>>>>

\* a relation with members, none of which contributes, yields no feature
C25_NoFeature ==
    /\ AfterConvert
    /\ clipBoundary = <<>>
    /\ ret.status = "return"
    /\ \E i \in RelationPositions :
          /\ Len(Elements[i].members) = 3
          /\ FeaturesFrom(i) = <<>>

(***************************************************************************)
(* Statistics                                                              *)
(***************************************************************************)
AfterStatistics == call.op = "getStatistics"

OfTypes(types) ==
    Cardinality({i \in 1..Len(input.collection) : input.collection[i].geometry.type \in types})

\* the features whose properties carry this key with this value
Occurrences(pair) ==
    Cardinality({i \in 1..Len(input.collection) :
                    /\ input.collection[i].properties.defined
                    /\ pair \in input.collection[i].properties.entries})

WatchList == {"highway", "building", "amenity", "natural", "landuse", "waterway", "shop",
              "leisure"}

Top == ret.stats.topFeatureTypes

\* C26: totalFeatures is the number of features and the sum of the four buckets,
\* Point/MultiPoint count as points, LineString/MultiLineString as lines,
\* Polygon/MultiPolygon as polygons; topFeatureTypes holds at most 10 distinct
\* key:value pairs over the watch-list keys, each with its exact number of
\* occurrences, in descending order of count
C26_Statistics ==
    AfterStatistics =>
        /\ ret.stats.totalFeatures = Len(input.collection)
        /\ ret.stats.totalFeatures =
               ret.stats.points + ret.stats.lines + ret.stats.polygons + ret.stats.other
        /\ ret.stats.points = OfTypes({"Point", "MultiPoint"})
        /\ ret.stats.lines = OfTypes({"LineString", "MultiLineString"})
        /\ ret.stats.polygons = OfTypes({"Polygon", "MultiPolygon"})
        /\ Len(Top) <= 10
        /\ \A p \in 1..Len(Top) :
              /\ Top[p].type[1] \in WatchList
              /\ Top[p].count = Occurrences(Top[p].type)
              /\ \A q \in 1..Len(Top) : p < q =>
                    /\ Top[p].count >= Top[q].count
                    /\ Top[p].type # Top[q].type

\* 12 distinct pairs: 10 are kept, the three that occur twice lead
C26_Witness ==
    /\ AfterStatistics
    /\ Len(input.collection) = 15
    /\ Len(Top) = 10
    /\ Top[1] = [type |-> <<"highway", "v10">>, count |-> 2]
    /\ Top[3].count = 2
    /\ Top[4].count = 1

\* a collection with a feature outside the six geometry types and one without properties
C26_OtherBucket ==
    /\ AfterStatistics
    /\ ret.stats.other = 1
    /\ ret.stats.points = 4
    /\ Top[1] = [type |-> <<"amenity", "cafe">>, count |-> 3]
    /\ Len(Top) = 3

(***************************************************************************)
(* Clipped coordinates lie inside the boundary                             *)
(***************************************************************************)
\* every position of the geometry lies inside the box last handed to setClipBoundary
AllInside(geometry) ==
    CASE geometry.type = "Point" ->
             InsideActiveBox(geometry.coordinates[1], geometry.coordinates[2])
      [] geometry.type = "LineString" ->
             \A i \in 1..Len(geometry.coordinates) :
                 InsideActiveBox(geometry.coordinates[i][1], geometry.coordinates[i][2])
      [] geometry.type \in {"Polygon", "MultiLineString"} ->
             \A r \in 1..Len(geometry.coordinates) :
                 \A i \in 1..Len(geometry.coordinates[r]) :
                     InsideActiveBox(geometry.coordinates[r][i][1],
                                     geometry.coordinates[r][i][2])
      [] OTHER -> TRUE

\* C27: with a clip boundary set, every coordinate of every non-null result of
\* clipFeature and of every feature of the collection convert returns lies inside
\* the boundary, for Point, LineString, Polygon and MultiLineString geometries
C27_ClippedInside ==
    lastSet # <<>> =>
        /\ (AfterClip /\ ret.value # <<>> /\ input.feature.geometry.type \in ClippedTypes) =>
               AllInside(ret.value[1].geometry)
        /\ (AfterConvert /\ ret.status = "return") =>
               \A k \in 1..Len(ret.features) :
                   /\ ret.features[k].geometry.type \in ClippedTypes
                   /\ AllInside(ret.features[k].geometry)

\* a line with a vertex outside the boundary is returned with a clamped vertex
C27_Witness ==
    /\ lastSet # <<>>
    /\ AfterClip
    /\ input.feature.geometry.type = "LineString"
    /\ input.feature.geometry.hasCoordinates
    /\ \E i \in 1..Len(input.feature.geometry.coordinates) :
          /\ input.feature.geometry.coordinates[i] # NullVertex
          /\ ~InsideActiveBox(input.feature.geometry.coordinates[i][1],
                              input.feature.geometry.coordinates[i][2])
    /\ ret.value # <<>>
    /\ Len(ret.value[1].geometry.coordinates) = 3

\* convert under a boundary returns a polygon built from a way
C27_WitnessConvert ==
    /\ lastSet # <<>>
    /\ AfterConvert
    /\ \E k \in 1..Len(ret.features) : ret.features[k].geometry.type = "Polygon"

\* a polygon some of whose vertices were outside is returned
C27_WitnessPolygon ==
    /\ lastSet # <<>>
    /\ AfterClip
    /\ input.feature.geometry.type = "Polygon"
    /\ input.feature.geometry.hasCoordinates
    /\ ret.value # <<>>
    /\ ret.value[1].geometry.coordinates # input.feature.geometry.coordinates

(***************************************************************************)
(* Clipping twice                                                          *)
(***************************************************************************)
\* clipFeature returned a feature of one of the four clipped geometry types
ClipReturnedFeature ==
    /\ AfterClip
    /\ ret.value # <<>>
    /\ input.feature.geometry.type \in ClippedTypes

\* the outcome of clipping the returned feature once more under the same boundary
ClippedAgain == clipFeatureToBoundary(clipBoundary, ret.value[1])

\* C28: under a fixed boundary, clipping a non-null result of clipFeature again
\* returns a feature with the same geometry and never null
C28_ClipIdempotent ==
    ClipReturnedFeature =>
        /\ ClippedAgain.status = "return"
        /\ ClippedAgain.value # <<>>
        /\ ClippedAgain.value[1].geometry = ret.value[1].geometry

\* the first clip changed the polygon, the second leaves it
C28_Witness ==
    /\ ClipReturnedFeature
    /\ clipBoundary # NoBoundary
    /\ input.feature.geometry.type = "Polygon"
    /\ input.feature.geometry.hasCoordinates
    /\ ret.value[1].geometry # input.feature.geometry
    /\ ClippedAgain.value = ret.value

\* the first clip clamped a vertex of the line, the second leaves the line
C28_WitnessLine ==
    /\ ClipReturnedFeature
    /\ clipBoundary # NoBoundary
    /\ input.feature.geometry.type = "LineString"
    /\ input.feature.geometry.hasCoordinates
    /\ ret.value[1].geometry # input.feature.geometry
    /\ Len(ret.value[1].geometry.coordinates) = 3
    /\ ClippedAgain.value = ret.value

(***************************************************************************)
(* The retry loop and the cache                                            *)
(***************************************************************************)
MaxAttempts == Len(overpassEndpoints) * 2

\* the attempts of one call and the endpoint index stay within their ranges
FetchWithinLimits ==
    /\ currentEndpointIndex \in 0..(Len(overpassEndpoints) - 1)
    /\ fetch.pc = "fetching" => fetch.attempt < MaxAttempts
    /\ (call.op = "fetchOverpassData" /\ ret.status \in {"return", "throw"}) =>
           ret.attempts <= MaxAttempts

\* the cache is written by this step
CacheWritten == cachedData' # cachedData \/ cachedQuery' # cachedQuery

\* this step is a successful attempt of the call in flight, which stores its data
SuccessfulAttempt ==
    /\ fetch.pc = "fetching"
    /\ fetch'.pc = "idle"
    /\ ret'.status = "return"
    /\ ret'.attempts = fetch.attempt + 1
    /\ cachedData' = <<ret'.data>>
    /\ cachedQuery' = hashQuery(fetch.query)

\* this step is clearCache
Cleared == cachedData' = NoData /\ cachedQuery' = NullValue /\ ret' = ret /\ fetch' = fetch

\* this step ends the call in flight in failure
CallFails == fetch.pc = "fetching" /\ ret'.status = "throw"

\* this step is the entry of fetchOverpassData(query)
CallStarts(query) ==
    /\ fetch.pc = "idle"
    /\ call' = [op |-> "fetchOverpassData", query |-> query]
    /\ ret' # ret \/ call' # call \/ fetch' # fetch

\* C29: one fetchOverpassData call makes at most 2 x (number of endpoints) = 6
\* attempts and currentEndpointIndex stays in [0, number of endpoints - 1]; the
\* cache is written only by a successful attempt, a call that ends in failure
\* leaves it as it was, and a call whose query hash equals cachedQuery, with the
\* cache not cleared, returns the cached data without any attempt
C29_RetryAndCache ==
    /\ MaxAttempts = 6
    /\ []FetchWithinLimits
    /\ [][/\ CacheWritten => (SuccessfulAttempt \/ Cleared)
          /\ CallFails => ~CacheWritten
          /\ \A query \in QueryInputs :
                (CallStarts(query) /\ cachedQuery = hashQuery(query) /\ cachedData # NoData) =>
                    /\ ret' = [status |-> "return", data |-> cachedData[1], attempts |-> 0]
                    /\ fetch'.pc = "idle"
                    /\ ~CacheWritten]_vars

\* a call failed after 6 attempts while the cache holds the data of an earlier call
C29_Witness ==
    /\ call.op = "fetchOverpassData"
    /\ ret.status = "throw"
    /\ ret.attempts = MaxAttempts
    /\ currentEndpointIndex = Len(overpassEndpoints) - 1
    /\ cachedData # NoData
    /\ cachedQuery # hashQuery(call.query)

\* a call answered from the cache
C29_CacheHit ==
    /\ call.op = "fetchOverpassData"
    /\ ret.status = "return"
    /\ ret.attempts = 0
    /\ cachedData = <<ret.data>>

(***************************************************************************)
(* The draw history                                                        *)
(***************************************************************************)
HistoryWithinLimits ==
    /\ Len(drawHistory) <= 10
    /\ currentHistoryIndex >= 0 - 1
    /\ currentHistoryIndex <= Len(drawHistory) - 1
    /\ call.op = "addToDrawHistory" =>
           /\ currentHistoryIndex = Len(drawHistory) - 1
           /\ drawHistory[Len(drawHistory)] = HistoryEntry(call.bounds)

\* C30: after any sequence of addToDrawHistory, undoDrawing and clearSelection
\* drawHistory has at most 10 entries and -1 <= currentHistoryIndex <=
\* drawHistory.length - 1; immediately after addToDrawHistory the index equals
\* drawHistory.length - 1, the entries after the current index having been discarded
\* before the push; undoDrawing decreases the index by 1 only when it is greater
\* than 0 and otherwise changes nothing
C30_DrawHistory ==
    /\ []HistoryWithinLimits
    /\ [][/\ call'.op = "undoDrawing" =>
                /\ drawHistory' = drawHistory
                /\ IF currentHistoryIndex > 0
                   THEN currentHistoryIndex' = currentHistoryIndex - 1
                   ELSE UNCHANGED mapController
          /\ call'.op = "addToDrawHistory" =>
                \A k \in 1..(Len(drawHistory') - 1) :
                    \E j \in 1..(currentHistoryIndex + 1) : drawHistory'[k] = drawHistory[j]]_vars

\* a rectangle drawn after two undos on a history of three: the history holds two entries
C30_Witness ==
    /\ call.op = "addToDrawHistory"
    /\ Len(drawHistory) = 2
    /\ currentHistoryIndex = 1
    /\ drawHistory[1] # drawHistory[2]

\* the eleventh rectangle in a row: the history stays at ten entries
C30_Full ==
    /\ call.op = "addToDrawHistory"
    /\ Len(drawHistory) = 10
    /\ currentHistoryIndex = 9
    /\ drawHistory[1] # HistoryEntry(call.bounds)
    /\ \A k \in 2..10 : drawHistory[k] = HistoryEntry(call.bounds)

\* undo at index 0: nothing to undo
C30_UndoAtStart ==
    /\ call.op = "undoDrawing"
    /\ ret.shown = "Nothing to undo"
    /\ currentHistoryIndex = 0
    /\ Len(drawHistory) = 3

====
